---- MODULE Spec2Model ----
(***************************************************************************)
(* A model of curb_energy.client.RestApiClient: the OAuth2 token store,    *)
(* the two grant flows, authenticate(), the authenticated _fetch and the   *)
(* resource accessors built on it.                                         *)
(*                                                                         *)
(* The client is asyncio code: a coroutine runs without interruption up to *)
(* its next network await.  `running` names the task that holds the event  *)
(* loop (0: the loop is idle); a task gives the loop up only when it sends *)
(* a request, and takes it back when the response is delivered.  The clock *)
(* and the remote endpoints move only while the loop is idle.              *)
(***************************************************************************)
EXTENDS Integers, Sequences, FiniteSets, TLC

\* ---------------------------------------------------------------- bounds
NumTasks == 2
MaxTime == 2
MaxCalls == 2
MaxTokens == 3

Tasks == 1..NumTasks

\* ------------------------------------------------------- values and types
\* Python's None, for a string or an identifier, for a resource and for
\* `until`.
NoValue == 0
NoData == "None"
NoUntil == -1

\* expires_in of the tokens the model constructs: already expired, or alive
\* for two clock ticks.
ExpiresInValues == {-1, 2}

VARIABLES
    now,          \* the clock read by now()
    created,      \* number of AuthToken objects constructed so far
    issued,       \* auth endpoint: serial number of the last grant it issued
    auth_token,   \* RestApiClient._auth_token: NoToken or an AuthToken
    entry_point,  \* RestApiClient._entry_point: NoData or the decoded links
    closed,       \* RestApiClient._session.closed
    running,      \* the task that holds the event loop, 0 when it is idle
    stack,        \* per task: its coroutine frames, innermost last
    ret,          \* per task: what the frame that just ended handed back
    net,          \* per task: its request or response in flight
    log,          \* per task: the requests its current call has sent
    op,           \* per task: the call the caller made, with its arguments
    pre,          \* per task: the client as the call found it
    post,         \* per task: the client as the call left it
    result,       \* per task: what the call returned or raised
    calls,        \* number of calls the callers have made
    rt,           \* the RealTimeClient, its driver and its caller
    script        \* scripts/streaming_client.py: its flag, main() and stream()s

vars == <<now, created, issued, auth_token, entry_point, closed, running,
          stack, ret, net, log, op, pre, post, result, calls, rt, script>>

\* What no operation of the RestApiClient touches.
rtVars == <<rt, script>>

\* ------------------------------------------------------------- AuthToken
\* An AuthToken object: its fields, and `id`, which tells one object from
\* another whatever they hold (Python's `is`).
AuthToken(access_token, refresh_token, expires_in, user_id, token_type, at, id) ==
    [access_token |-> access_token, refresh_token |-> refresh_token,
     expires_in |-> expires_in, user_id |-> user_id,
     token_type |-> token_type, generated_on |-> at, id |-> id]

\* Python's None where an AuthToken is expected.
NoToken == AuthToken(NoValue, NoValue, 0, 0, "", 0, 0)

expiry(tok) == tok.generated_on + tok.expires_in

\* is_valid that still holds at the instant of the expiry.
is_validNonStrict(tok, at) ==
    tok.access_token # NoValue /\ tok.refresh_token # NoValue /\ at <= expiry(tok)

\* is_valid that does not look at the expiry.
is_validIgnoresExpiry(tok, at) ==
    tok.access_token # NoValue /\ tok.refresh_token # NoValue

is_valid(tok, at) ==
    tok.access_token # NoValue /\ tok.refresh_token # NoValue /\ at < expiry(tok)

\* Lines 132-146: equality looks at four attributes and at nothing else.
EqualityAttrs == {"access_token", "refresh_token", "user_id", "token_type"}

\* isinstance(other, AuthToken): None is not one, nor is an object of another
\* type that carries the same attributes.
isinstance(other) == other # NoToken /\ DOMAIN other = DOMAIN NoToken

NotImplemented == [implemented |-> FALSE, value |-> FALSE]
Implemented(v) == [implemented |-> TRUE, value |-> v]

\* __eq__ that also compares the lifetime.
__eq__ComparesLifetime(self, other) ==
    IF ~ isinstance(other)
      THEN NotImplemented
      ELSE Implemented(\A a \in EqualityAttrs \cup {"expires_in"} :
                          self[a] = other[a])

__eq__(self, other) ==
    IF ~ isinstance(other)
      THEN NotImplemented
      ELSE Implemented(\A a \in EqualityAttrs : self[a] = other[a])

__ne__(self, other) ==
    IF ~ isinstance(other)
      THEN NotImplemented
      ELSE Implemented(\E a \in EqualityAttrs : self[a] # other[a])

\* self == other and self != other for an AuthToken self: when __eq__ or
\* __ne__ declines and the other operand's type declines too, Python
\* compares identities, and a token is no other object than itself.
eq(self, other) ==
    LET r == __eq__(self, other) IN IF r.implemented THEN r.value ELSE FALSE

ne(self, other) ==
    LET r == __ne__(self, other) IN IF r.implemented THEN r.value ELSE TRUE

\* base64.b64encode of the access token: an encoding, not the token itself.
b64encode(s) == <<"b64", s>>

_auth_headers(tok) ==
    [Authorization |-> <<"Bearer", b64encode(tok.access_token)>>]

\* ------------------------------------------------------- frames, returns
NoRet == [kind |-> "none", tok |-> NoToken, data |-> NoData, exc |-> ""]

Frame(fn, pc, schema, params, flag) ==
    [fn |-> fn, pc |-> pc, schema |-> schema, params |-> params,
     flag |-> flag, token |-> NoToken, exc |-> NoRet]

NoParams == [k \in {} |-> 0]

RetNone == [kind |-> "value", tok |-> NoToken, data |-> NoData, exc |-> ""]
RetToken(tok) == [kind |-> "value", tok |-> tok, data |-> NoData, exc |-> ""]
RetData(d) == [kind |-> "value", tok |-> NoToken, data |-> d, exc |-> ""]
Raise(e) == [kind |-> "raise", tok |-> NoToken, data |-> NoData, exc |-> e]

\* ------------------------------------------------------------------ JSON
\* A JSON text: one that does not parse, or one that parses to an object or
\* to a value of another kind.  json.dumps of a dict gives an object text.
NoFields == [k \in {} |-> 0]
dumps(obj) == [wellformed |-> TRUE, kind |-> "object", value |-> obj]
MalformedText == [wellformed |-> FALSE, kind |-> "", value |-> NoFields]
ArrayText == [wellformed |-> TRUE, kind |-> "array", value |-> NoFields]

\* Line 104: what from_json lets through when json.loads rejects the text.
MalformedTokenError == "ValueError"

\* json() that writes the lifetime the token was issued with.
jsonOriginalLifetime(self, at) ==
    dumps([access_token |-> self.access_token,
           refresh_token |-> self.refresh_token,
           expires_in |-> self.expires_in,
           user_id |-> self.user_id,
           token_type |-> self.token_type])

\* Lines 120-127, called at time `at`.
json(self, at) ==
    dumps([access_token |-> self.access_token,
           refresh_token |-> self.refresh_token,
           expires_in |-> expiry(self) - at,
           user_id |-> self.user_id,
           token_type |-> self.token_type])

\* from_json() that does not hand user_id on to the constructor.
from_jsonDropsUserId(data, at, id) ==
    IF ~ data.wellformed THEN Raise(MalformedTokenError)
    ELSE IF data.kind # "object" THEN Raise("AttributeError")
    ELSE LET d == data.value IN
           RetToken(AuthToken(d.access_token, d.refresh_token, d.expires_in,
                              0, d.token_type, at, id))

\* from_json() that accepts a text that does not parse.
from_jsonAcceptsAnything(data, at, id) ==
    IF data.kind # "object"
      THEN RetToken(AuthToken(NoValue, NoValue, 0, 0, "bearer", at, id))
    ELSE LET d == data.value IN
           RetToken(AuthToken(d.access_token, d.refresh_token, d.expires_in,
                              d.user_id, d.token_type, at, id))

\* Lines 106-112, called at time `at`; `id` is the new object.  json.loads
\* raises on a text that does not parse; d.get exists on an object only.
from_json(data, at, id) ==
    IF ~ data.wellformed THEN Raise(MalformedTokenError)
    ELSE IF data.kind # "object" THEN Raise("AttributeError")
    ELSE LET d == data.value IN
           RetToken(AuthToken(d.access_token, d.refresh_token, d.expires_in,
                              d.user_id, d.token_type, at, id))

NoMsg == [kind |-> "none"]

Top(t) == stack[t][Len(stack[t])]
At(t, fn, pc) ==
    /\ running = t
    /\ stack[t] # <<>>
    /\ Top(t).fn = fn
    /\ Top(t).pc = pc

\* What a call's pre and post conditions are stated over.
Snapshot(tok, ep, cl, at) ==
    [auth_token |-> tok, entry_point |-> ep, closed |-> cl, now |-> at]

NoSnapshot == Snapshot(NoToken, NoData, FALSE, 0)

\* The running frame calls `callee` and will resume at `pcAfter`.
Call(t, pcAfter, callee) ==
    /\ stack' = [stack EXCEPT
                   ![t] = Append([@ EXCEPT ![Len(@)].pc = pcAfter], callee)]
    /\ ret' = [ret EXCEPT ![t] = NoRet]
    /\ running' = t
    /\ UNCHANGED <<result, post>>

\* The running frame binds its local `token`, calls `callee` and will resume
\* at `pcAfter`.
CallWith(t, pcAfter, token, callee) ==
    /\ stack' = [stack EXCEPT
                   ![t] = Append([@ EXCEPT ![Len(@)].pc = pcAfter,
                                           ![Len(@)].token = token], callee)]
    /\ ret' = [ret EXCEPT ![t] = NoRet]
    /\ running' = t
    /\ UNCHANGED <<result, post>>

\* The running frame moves on to `pc`, keeping `token` as its local.
Goto(t, pc, token) ==
    /\ stack' = [stack EXCEPT
                   ![t] = [@ EXCEPT ![Len(@)].pc = pc, ![Len(@)].token = token]]
    /\ ret' = [ret EXCEPT ![t] = NoRet]
    /\ running' = t
    /\ UNCHANGED <<result, post>>

\* The running frame ends with `r` (a value or an exception).  The outermost
\* frame hands `r` to the caller, and the event loop becomes idle.
Return(t, r) ==
    /\ stack' = [stack EXCEPT ![t] = SubSeq(@, 1, Len(@) - 1)]
    /\ IF Len(stack[t]) = 1
         THEN /\ result' = [result EXCEPT ![t] = r]
              /\ post' = [post EXCEPT ![t] =
                            Snapshot(auth_token', entry_point',
                                     closed', now')]
              /\ ret' = [ret EXCEPT ![t] = NoRet]
              /\ running' = 0
         ELSE /\ ret' = [ret EXCEPT ![t] = r]
              /\ running' = t
              /\ UNCHANGED <<result, post>>

\* aiohttp's ClientSession refuses a request once it is closed.
SessionClosedError == "RuntimeError"

\* A request as the log keeps it: what was sent, the store at that moment,
\* and, once the response has been handled, what came back.
LogEntry(req, msg, tok, at) ==
    [req |-> req, msg |-> msg, held |-> tok, at |-> at,
     status |-> 0, body |-> "", granted |-> NoToken, rat |-> 0]

\* The response to the last request of the log has been handled.
Answered(t, status, body, granted, at) ==
    log' = [log EXCEPT ![t] =
              [@ EXCEPT ![Len(@)].status = status, ![Len(@)].body = body,
                        ![Len(@)].granted = granted, ![Len(@)].rat = at]]

\* The running frame sends `msg` and waits at `pc` for the response.
Send(t, pc, msg, req) ==
    /\ stack' = [stack EXCEPT ![t] = [@ EXCEPT ![Len(@)].pc = pc]]
    /\ net' = [net EXCEPT ![t] = msg]
    /\ log' = [log EXCEPT ![t] =
                 Append(@, LogEntry(req, msg, auth_token, now))]
    /\ ret' = [ret EXCEPT ![t] = NoRet]
    /\ running' = 0
    /\ UNCHANGED <<result, post>>

\* The response to task t's request has arrived: t resumes.
Resumes(t, fn) ==
    /\ running = 0
    /\ stack[t] # <<>>
    /\ Top(t).fn = fn
    /\ Top(t).pc = "await"
    /\ net[t].kind = "response"

\* ------------------------------------------------------------------ Init
\* The auth_token the client is constructed with: none, or a token the caller
\* made beforehand, alive or expired.
\* scripts/streaming_client.py before main() runs: is_streaming as line 16
\* sets it, no profile fetched, no client made, no stream() started.  Per
\* client: _connected, where its stream() stands (pc), what the iteration
\* under way found (_connected at its start) and the client methods it has
\* called since.  `stops` counts the calls of stop(), `stopped` records that
\* one of them came while a loop was running.
NoScript ==
    [is_streaming |-> FALSE, main |-> "start", profiles |-> 0,
     _connected |-> [c \in Tasks |-> FALSE],
     pc |-> [c \in Tasks |-> ""],
     found |-> [c \in Tasks |-> FALSE],
     called |-> [c \in Tasks |-> <<>>],
     stops |-> 0, stopped |-> FALSE]

InitialTokens ==
    { NoToken } \cup
    { AuthToken(1, 1, e, 1, "bearer", 0, 1) : e \in ExpiresInValues }

Init ==
    /\ now = 0
    /\ auth_token \in InitialTokens
    /\ created = auth_token.id
    /\ issued = 1
    /\ entry_point = NoData
    /\ closed = FALSE
    /\ running = 0
    /\ stack = [t \in Tasks |-> <<>>]
    /\ ret = [t \in Tasks |-> NoRet]
    /\ net = [t \in Tasks |-> NoMsg]
    /\ log = [t \in Tasks |-> <<>>]
    /\ op = [t \in Tasks |-> Frame("", "", "", NoParams, FALSE)]
    /\ pre = [t \in Tasks |-> NoSnapshot]
    /\ post = [t \in Tasks |-> NoSnapshot]
    /\ result = [t \in Tasks |-> NoRet]
    /\ calls = 0
    /\ rt = [_connected |-> FALSE, _streaming |-> FALSE, scope |-> "outside",
             fn |-> "", arg |-> NoParams, was |-> FALSE, driver |-> <<>>,
             result |-> [kind |-> "", timestamp |-> 0, measurements |-> "",
                         exc |-> ""],
             n |-> 0]
    /\ script = NoScript

\* ------------------------------------------------------------ the caller
\* Lines 562-565: the query of historical_data; `until` only when supplied.
UntilValues == {NoUntil, 0, 1}

historical_paramsAlwaysUntil(until) ==
    [k \in {"granularity", "unit", "since", "until"} |->
        CASE k = "granularity" -> "1H"
          [] k = "unit" -> "$/hr"
          [] k = "since" -> 0
          [] k = "until" -> until]

\* The query with `until` only when it is truthy (`if until:`).
historical_paramsTruthyUntil(until) ==
    [k \in {"granularity", "unit", "since"} \cup
            (IF until # NoUntil /\ until # 0 THEN {"until"} ELSE {}) |->
        CASE k = "granularity" -> "1H"
          [] k = "unit" -> "$/hr"
          [] k = "since" -> 0
          [] k = "until" -> until]

historical_params(until) ==
    [k \in {"granularity", "unit", "since"} \cup
            (IF until # NoUntil THEN {"until"} ELSE {}) |->
        CASE k = "granularity" -> "1H"
          [] k = "unit" -> "$/hr"
          [] k = "since" -> 0
          [] k = "until" -> until]

\* Lines 545-550: the arguments historical_data is called with.
historical_arguments(until) ==
    [granularity |-> "1H", unit |-> "$/hr", since |-> 0, until |-> until]

\* The public coroutines of RestApiClient a caller may start, with arguments.
\* The flag of __aexit__: the scoped body ended with an exception.
Operations ==
    { Frame("authenticate", "start", "", NoParams, FALSE),
      Frame("refresh_access_token", "start", "", NoParams, FALSE) } \cup
    { Frame("fetch_access_token", "start", "", NoParams, o) : o \in BOOLEAN } \cup
    { Frame(fn, "start", "", NoParams, FALSE) :
        fn \in {"entry_point", "profiles", "devices", "__aenter__"} } \cup
    { Frame("__aexit__", "start", "", NoParams, exc) : exc \in BOOLEAN } \cup
    { Frame("historical_data", "start", "", historical_arguments(until), FALSE) :
        until \in UntilValues }

\* A caller task that is not inside a call starts one.
Invoke(t, f) ==
    /\ running = 0
    /\ stack[t] = <<>>
    /\ calls < MaxCalls
    /\ calls' = calls + 1
    /\ stack' = [stack EXCEPT ![t] = <<f>>]
    /\ op' = [op EXCEPT ![t] = f]
    /\ pre' = [pre EXCEPT ![t] =
                 Snapshot(auth_token, entry_point, closed, now)]
    /\ post' = [post EXCEPT ![t] = NoSnapshot]
    /\ result' = [result EXCEPT ![t] = NoRet]
    /\ log' = [log EXCEPT ![t] = <<>>]
    /\ ret' = [ret EXCEPT ![t] = NoRet]
    /\ running' = t
    /\ UNCHANGED <<rtVars, now, created, issued, auth_token, entry_point, closed, net>>

\* ------------------------------------------------------------- the clock
Tick ==
    /\ running = 0
    /\ now < MaxTime
    /\ now' = now + 1
    /\ UNCHANGED <<rtVars, created, issued, auth_token, entry_point, closed, running,
                   stack, ret, net, log, op, pre, post, result, calls>>

\* ---------------------------------------------------- the remote service
\* POST /oauth2/token: the endpoint refuses the grant, or issues a token.
\* What it issues is its own business: the body may lack a field or carry a
\* lifetime that is already over.
GrantBody(a, r, e) ==
    [access_token |-> a, refresh_token |-> r, expires_in |-> e,
     user_id |-> 1, token_type |-> "bearer"]

GrantBodies(serial) ==
    { GrantBody(serial, serial, e) : e \in ExpiresInValues } \cup
    { GrantBody(NoValue, serial, 2), GrantBody(serial, NoValue, 2) }

AuthEndpoint(t) ==
    /\ running = 0
    /\ net[t].kind = "request"
    /\ net[t].method = "POST"
    /\ \/ /\ net' = [net EXCEPT ![t] = [kind |-> "response", status |-> 401]]
          /\ UNCHANGED issued
       \/ /\ issued < MaxTokens
          /\ issued' = issued + 1
          /\ \E body \in GrantBodies(issued + 1) :
                net' = [net EXCEPT ![t] =
                          [kind |-> "response", status |-> 200, body |-> body]]
    /\ UNCHANGED <<rtVars, now, created, auth_token, entry_point, closed, running,
                   stack, ret, log, op, pre, post, result, calls>>

\* ---------------------------------------------------------- authenticate
\* authenticate() that answers an expired token with the password grant.
authenticate_beginPasswordOnly(t) ==
    /\ At(t, "authenticate", "start")
    /\ UNCHANGED <<rtVars, now, created, issued, auth_token, entry_point, closed,
                   net, log, op, pre, calls>>
    /\ LET token == auth_token IN
         IF token = NoToken \/ ~ is_valid(token, now)
           THEN CallWith(t, "granted", token,
                         Frame("fetch_access_token", "start", "",
                               NoParams, FALSE))
           ELSE Goto(t, "check", token)

authenticate_begin(t) ==
    /\ At(t, "authenticate", "start")
    /\ UNCHANGED <<rtVars, now, created, issued, auth_token, entry_point, closed,
                   net, log, op, pre, calls>>
    /\ LET token == auth_token IN
         IF token = NoToken
           THEN CallWith(t, "granted", token,
                         Frame("fetch_access_token", "start", "",
                               NoParams, FALSE))
           ELSE IF ~ is_valid(token, now)
             THEN CallWith(t, "granted", token,
                           Frame("refresh_access_token", "start", "",
                                 NoParams, FALSE))
             ELSE Goto(t, "check", token)

\* authenticate() that accepts whatever token the grant returned.
authenticate_finishUnchecked(t) ==
    /\ \/ At(t, "authenticate", "check")
       \/ At(t, "authenticate", "granted")
    /\ UNCHANGED <<rtVars, now, created, issued, entry_point, closed, net, log, op,
                   pre, calls>>
    /\ IF ret[t].kind = "raise"
         THEN /\ UNCHANGED auth_token
              /\ Return(t, ret[t])
         ELSE LET token == IF Top(t).pc = "check" THEN Top(t).token
                                                  ELSE ret[t].tok IN
                IF token = NoToken
                  THEN /\ auth_token' = auth_token
                       /\ Return(t, Raise("AuthenticationError"))
                  ELSE /\ auth_token' = token
                       /\ Return(t, RetToken(auth_token'))

\* authenticate() that does not rebind `token` to what the grant returned.
authenticate_finishStaleToken(t) ==
    /\ \/ At(t, "authenticate", "check")
       \/ At(t, "authenticate", "granted")
    /\ UNCHANGED <<rtVars, now, created, issued, entry_point, closed, net, log, op,
                   pre, calls>>
    /\ IF ret[t].kind = "raise"
         THEN /\ UNCHANGED auth_token
              /\ Return(t, ret[t])
         ELSE LET token == Top(t).token IN
                IF ~ (token # NoToken /\ is_valid(token, now))
                  THEN /\ auth_token' = auth_token
                       /\ Return(t, Raise("AuthenticationError"))
                  ELSE /\ auth_token' = token
                       /\ Return(t, RetToken(auth_token'))

\* authenticate() that returns the granted token without storing it.
authenticate_finishNoInstall(t) ==
    /\ \/ At(t, "authenticate", "check")
       \/ At(t, "authenticate", "granted")
    /\ UNCHANGED <<rtVars, now, created, issued, entry_point, closed, net, log, op,
                   pre, calls>>
    /\ IF ret[t].kind = "raise"
         THEN /\ UNCHANGED auth_token
              /\ Return(t, ret[t])
         ELSE LET token == IF Top(t).pc = "check" THEN Top(t).token
                                                  ELSE ret[t].tok IN
                IF ~ (token # NoToken /\ is_valid(token, now))
                  THEN /\ auth_token' = auth_token
                       /\ Return(t, Raise("AuthenticationError"))
                  ELSE /\ auth_token' = auth_token
                       /\ Return(t, RetToken(token))

\* Lines 431-435, reached with the held token or with what the grant returned.
\* authenticate() that tries the password grant when the refresh grant has
\* given it no valid token.
authenticate_finishRetries(t) ==
    /\ \/ At(t, "authenticate", "check")
       \/ At(t, "authenticate", "granted")
    /\ UNCHANGED <<rtVars, now, created, issued, entry_point, closed, net, log, op,
                   pre, calls>>
    /\ IF ret[t].kind = "raise"
         THEN /\ UNCHANGED auth_token
              /\ Return(t, ret[t])
         ELSE LET token == IF Top(t).pc = "check" THEN Top(t).token
                                                  ELSE ret[t].tok IN
                IF ~ (token # NoToken /\ is_valid(token, now))
                  THEN /\ auth_token' = auth_token
                       /\ IF /\ log[t] # <<>>
                             /\ log[t][Len(log[t])].req = "refresh_token"
                            THEN CallWith(t, "granted", token,
                                          Frame("fetch_access_token", "start",
                                                "", NoParams, FALSE))
                            ELSE Return(t, Raise("AuthenticationError"))
                  ELSE /\ auth_token' = token
                       /\ Return(t, RetToken(auth_token'))

authenticate_finish(t) ==
    /\ \/ At(t, "authenticate", "check")
       \/ At(t, "authenticate", "granted")
    /\ UNCHANGED <<rtVars, now, created, issued, entry_point, closed, net, log, op,
                   pre, calls>>
    /\ IF ret[t].kind = "raise"
         THEN /\ UNCHANGED auth_token
              /\ Return(t, ret[t])
         ELSE LET token == IF Top(t).pc = "check" THEN Top(t).token
                                                  ELSE ret[t].tok IN
                IF ~ (token # NoToken /\ is_valid(token, now))
                  THEN /\ auth_token' = auth_token
                       /\ Return(t, Raise("AuthenticationError"))
                  ELSE /\ auth_token' = token
                       /\ Return(t, RetToken(auth_token'))

\* ---------------------------------------------------- fetch_access_token
fetch_access_token_request(t) ==
    /\ At(t, "fetch_access_token", "start")
    /\ UNCHANGED <<rtVars, now, created, issued, auth_token, entry_point, closed,
                   op, pre, calls>>
    /\ LET payload == [grant_type |-> "password",
                       username |-> IF Top(t).flag THEN "other" ELSE "auth_username",
                       password |-> IF Top(t).flag THEN "other" ELSE "auth_password"]
       IN IF closed
            THEN /\ Return(t, Raise(SessionClosedError))
                 /\ UNCHANGED <<net, log>>
            ELSE Send(t, "await",
                      [kind |-> "request", method |-> "POST",
                       url |-> "/oauth2/token", data |-> payload],
                      "password")

\* fetch_access_token() that raises on a refused grant.
fetch_access_token_responseRaises(t) ==
    /\ Resumes(t, "fetch_access_token")
    /\ UNCHANGED <<rtVars, now, issued, auth_token, entry_point, closed, op,
                   pre, calls>>
    /\ net' = [net EXCEPT ![t] = NoMsg]
    /\ IF net[t].status # 200
         THEN /\ created' = created
              /\ Answered(t, net[t].status, "", NoToken, now)
              /\ Return(t, Raise("AuthenticationError"))
         ELSE LET token == AuthToken(net[t].body.access_token,
                                     net[t].body.refresh_token,
                                     net[t].body.expires_in,
                                     net[t].body.user_id,
                                     net[t].body.token_type, now, created + 1)
              IN
              /\ created' = created + 1
              /\ Answered(t, 200, "", token, now)
              /\ Return(t, RetToken(token))

\* fetch_access_token() that stores the token it was granted.
fetch_access_token_responseInstalls(t) ==
    /\ Resumes(t, "fetch_access_token")
    /\ UNCHANGED <<rtVars, now, issued, entry_point, closed, op, pre, calls>>
    /\ net' = [net EXCEPT ![t] = NoMsg]
    /\ IF net[t].status # 200
         THEN /\ UNCHANGED <<created, auth_token>>
              /\ Answered(t, net[t].status, "", NoToken, now)
              /\ Return(t, RetNone)
         ELSE LET token == AuthToken(net[t].body.access_token,
                                     net[t].body.refresh_token,
                                     net[t].body.expires_in,
                                     net[t].body.user_id,
                                     net[t].body.token_type, now, created + 1)
              IN
              /\ created' = created + 1
              /\ auth_token' = token
              /\ Answered(t, 200, "", token, now)
              /\ Return(t, RetToken(token))

fetch_access_token_response(t) ==
    /\ Resumes(t, "fetch_access_token")
    /\ UNCHANGED <<rtVars, now, issued, auth_token, entry_point, closed, op,
                   pre, calls>>
    /\ net' = [net EXCEPT ![t] = NoMsg]
    /\ IF net[t].status # 200
         THEN /\ created' = created
              /\ Answered(t, net[t].status, "", NoToken, now)
              /\ Return(t, RetNone)
         ELSE LET token == AuthToken(net[t].body.access_token,
                                     net[t].body.refresh_token,
                                     net[t].body.expires_in,
                                     net[t].body.user_id,
                                     net[t].body.token_type, now, created + 1)
              IN
              /\ created' = created + 1
              /\ Answered(t, 200, "", token, now)
              /\ Return(t, RetToken(token))

\* -------------------------------------------------- refresh_access_token
\* refresh_access_token() that falls back to the password grant when no
\* token is held.
refresh_access_token_requestFallsBack(t) ==
    /\ At(t, "refresh_access_token", "start")
    /\ UNCHANGED <<rtVars, now, created, issued, auth_token, entry_point, closed,
                   op, pre, calls>>
    /\ IF closed
         THEN /\ Return(t, Raise(SessionClosedError))
              /\ UNCHANGED <<net, log>>
         ELSE IF auth_token = NoToken
           THEN Send(t, "await",
                     [kind |-> "request", method |-> "POST",
                      url |-> "/oauth2/token",
                      data |-> [grant_type |-> "password",
                                username |-> "auth_username",
                                password |-> "auth_password"]],
                     "password")
           ELSE Send(t, "await",
                     [kind |-> "request", method |-> "POST",
                      url |-> "/oauth2/token",
                      data |-> [grant_type |-> "refresh_token",
                                refresh_token |-> auth_token.refresh_token,
                                user_id |-> auth_token.user_id]],
                     "refresh_token")

\* refresh_access_token() that sends nothing while another task's refresh is
\* under way, and hands back the token it holds.
refresh_access_token_requestSingleFlight(t) ==
    /\ At(t, "refresh_access_token", "start")
    /\ UNCHANGED <<rtVars, now, created, issued, auth_token, entry_point, closed,
                   op, pre, calls>>
    /\ IF auth_token = NoToken
         THEN /\ Return(t, Raise("NoExistingTokenError"))
              /\ UNCHANGED <<net, log>>
         ELSE IF \E u \in Tasks \ {t} :
                    stack[u] # <<>> /\ Top(u).fn = "refresh_access_token"
           THEN /\ Return(t, RetToken(auth_token))
                /\ UNCHANGED <<net, log>>
           ELSE Send(t, "await",
                     [kind |-> "request", method |-> "POST",
                      url |-> "/oauth2/token",
                      data |-> [grant_type |-> "refresh_token",
                                refresh_token |-> auth_token.refresh_token,
                                user_id |-> auth_token.user_id]],
                     "refresh_token")

refresh_access_token_request(t) ==
    /\ At(t, "refresh_access_token", "start")
    /\ UNCHANGED <<rtVars, now, created, issued, auth_token, entry_point, closed,
                   op, pre, calls>>
    /\ IF auth_token = NoToken
         THEN /\ Return(t, Raise("NoExistingTokenError"))
              /\ UNCHANGED <<net, log>>
         ELSE LET payload == [grant_type |-> "refresh_token",
                              refresh_token |-> auth_token.refresh_token,
                              user_id |-> auth_token.user_id]
              IN IF closed
                   THEN /\ Return(t, Raise(SessionClosedError))
                        /\ UNCHANGED <<net, log>>
                   ELSE Send(t, "await",
                             [kind |-> "request", method |-> "POST",
                              url |-> "/oauth2/token", data |-> payload],
                             "refresh_token")

\* refresh_access_token() that returns the new token without storing it.
refresh_access_token_responseNoInstall(t) ==
    /\ Resumes(t, "refresh_access_token")
    /\ UNCHANGED <<rtVars, now, issued, entry_point, closed, op, pre, calls>>
    /\ net' = [net EXCEPT ![t] = NoMsg]
    /\ IF net[t].status # 200
         THEN /\ UNCHANGED <<created, auth_token>>
              /\ Answered(t, net[t].status, "", NoToken, now)
              /\ Return(t, RetNone)
         ELSE LET token == AuthToken(net[t].body.access_token,
                                     net[t].body.refresh_token,
                                     net[t].body.expires_in,
                                     net[t].body.user_id,
                                     net[t].body.token_type, now, created + 1)
              IN
              /\ created' = created + 1
              /\ auth_token' = auth_token
              /\ Answered(t, 200, "", token, now)
              /\ Return(t, RetToken(token))

\* refresh_access_token() that raises on a refused grant.
refresh_access_token_responseRaises(t) ==
    /\ Resumes(t, "refresh_access_token")
    /\ UNCHANGED <<rtVars, now, issued, entry_point, closed, op, pre, calls>>
    /\ net' = [net EXCEPT ![t] = NoMsg]
    /\ IF net[t].status # 200
         THEN /\ UNCHANGED <<created, auth_token>>
              /\ Answered(t, net[t].status, "", NoToken, now)
              /\ Return(t, Raise("AuthenticationError"))
         ELSE LET token == AuthToken(net[t].body.access_token,
                                     net[t].body.refresh_token,
                                     net[t].body.expires_in,
                                     net[t].body.user_id,
                                     net[t].body.token_type, now, created + 1)
              IN
              /\ created' = created + 1
              /\ auth_token' = token
              /\ Answered(t, 200, "", token, now)
              /\ Return(t, RetToken(token))

\* refresh_access_token() that drops the held token when the grant is refused.
refresh_access_token_responseClearsOnRefusal(t) ==
    /\ Resumes(t, "refresh_access_token")
    /\ UNCHANGED <<rtVars, now, issued, entry_point, closed, op, pre, calls>>
    /\ net' = [net EXCEPT ![t] = NoMsg]
    /\ IF net[t].status # 200
         THEN /\ created' = created
              /\ auth_token' = NoToken
              /\ Answered(t, net[t].status, "", NoToken, now)
              /\ Return(t, RetNone)
         ELSE LET token == AuthToken(net[t].body.access_token,
                                     net[t].body.refresh_token,
                                     net[t].body.expires_in,
                                     net[t].body.user_id,
                                     net[t].body.token_type, now, created + 1)
              IN
              /\ created' = created + 1
              /\ auth_token' = token
              /\ Answered(t, 200, "", token, now)
              /\ Return(t, RetToken(token))

refresh_access_token_response(t) ==
    /\ Resumes(t, "refresh_access_token")
    /\ UNCHANGED <<rtVars, now, issued, entry_point, closed, op, pre, calls>>
    /\ net' = [net EXCEPT ![t] = NoMsg]
    /\ IF net[t].status # 200
         THEN /\ UNCHANGED <<created, auth_token>>
              /\ Answered(t, net[t].status, "", NoToken, now)
              /\ Return(t, RetNone)
         ELSE LET token == AuthToken(net[t].body.access_token,
                                     net[t].body.refresh_token,
                                     net[t].body.expires_in,
                                     net[t].body.user_id,
                                     net[t].body.token_type, now, created + 1)
              IN
              /\ created' = created + 1
              /\ auth_token' = token
              /\ Answered(t, 200, "", token, now)
              /\ Return(t, RetToken(token))

\* ---------------------------------------------------------------- _fetch
\* Lines 609-611: the GET, with the headers built from the held token.
\* The GET with the headers of the token the client held when the call began.
SendGetStaleHeaders(t) ==
    IF auth_token = NoToken
      THEN /\ Return(t, Raise("AttributeError"))
           /\ UNCHANGED <<net, log>>
    ELSE IF closed
      THEN /\ Return(t, Raise(SessionClosedError))
           /\ UNCHANGED <<net, log>>
      ELSE Send(t, "await",
                [kind |-> "request", method |-> "GET", url |-> Top(t).schema,
                 headers |-> _auth_headers(IF pre[t].auth_token = NoToken
                                             THEN auth_token
                                             ELSE pre[t].auth_token),
                 params |-> Top(t).params],
                "GET")

SendGet(t) ==
    IF auth_token = NoToken
      THEN /\ Return(t, Raise("AttributeError"))
           /\ UNCHANGED <<net, log>>
    ELSE IF closed
      THEN /\ Return(t, Raise(SessionClosedError))
           /\ UNCHANGED <<net, log>>
      ELSE Send(t, "await",
                [kind |-> "request", method |-> "GET", url |-> Top(t).schema,
                 headers |-> _auth_headers(auth_token),
                 params |-> Top(t).params],
                "GET")

\* _fetch() that refreshes the held token before every GET.
_fetch_beginRefreshesFirst(t) ==
    /\ At(t, "_fetch", "start")
    /\ UNCHANGED <<rtVars, now, created, issued, auth_token, entry_point, closed,
                   net, log, op, pre, calls>>
    /\ Call(t, "authenticated",
            Frame(IF auth_token = NoToken THEN "authenticate"
                                          ELSE "refresh_access_token",
                  "start", "", NoParams, FALSE))

_fetch_begin(t) ==
    /\ At(t, "_fetch", "start")
    /\ UNCHANGED <<rtVars, now, created, issued, auth_token, entry_point, closed,
                   op, pre, calls>>
    /\ IF ~ (auth_token # NoToken /\ is_valid(auth_token, now))
         THEN /\ Call(t, "authenticated",
                      Frame("authenticate", "start", "", NoParams, FALSE))
              /\ UNCHANGED <<net, log>>
         ELSE SendGet(t)

\* _fetch() that goes on to the GET whatever authenticate() did.
_fetch_authenticatedIgnoresFailure(t) ==
    /\ At(t, "_fetch", "authenticated")
    /\ UNCHANGED <<rtVars, now, created, issued, auth_token, entry_point, closed,
                   op, pre, calls>>
    /\ SendGet(t)

_fetch_authenticated(t) ==
    /\ At(t, "_fetch", "authenticated")
    /\ UNCHANGED <<rtVars, now, created, issued, auth_token, entry_point, closed,
                   op, pre, calls>>
    /\ IF ret[t].kind = "raise"
         THEN /\ Return(t, ret[t])
              /\ UNCHANGED <<net, log>>
         ELSE SendGet(t)

\* Line 603: what _fetch lets through when the GET fails in transport.
TransportError == "IOError"

\* schema_class().load(data).data: the resource the schema decodes.
load(schema_class, data) == schema_class

\* _fetch() that loses the decoded resource.
_fetch_responseDropsData(t) ==
    /\ Resumes(t, "_fetch")
    /\ UNCHANGED <<rtVars, now, created, issued, auth_token, entry_point, closed,
                   op, pre, calls>>
    /\ net' = [net EXCEPT ![t] = NoMsg]
    /\ Answered(t, 200, net[t].body, NoToken, now)
    /\ Return(t, RetNone)

_fetch_response(t) ==
    /\ Resumes(t, "_fetch")
    /\ UNCHANGED <<rtVars, now, created, issued, auth_token, entry_point, closed,
                   op, pre, calls>>
    /\ net' = [net EXCEPT ![t] = NoMsg]
    /\ IF net[t].failed
         THEN /\ Answered(t, 0, "", NoToken, now)
              /\ Return(t, Raise(TransportError))
         ELSE /\ Answered(t, 200, net[t].body, NoToken, now)
              /\ IF net[t].body = "not json"
                   THEN Return(t, RetNone)
                   ELSE Return(t, RetData(load(Top(t).schema, net[t].body)))

\* GET on a resource URL: the request fails in transport, or it is answered
\* with a body that is JSON or is not.  _fetch never looks at the status.
ResourceEndpoint(t) ==
    /\ running = 0
    /\ net[t].kind = "request"
    /\ net[t].method = "GET"
    /\ \/ \E body \in {"json", "not json"} :
             net' = [net EXCEPT ![t] =
                       [kind |-> "response", failed |-> FALSE, body |-> body]]
       \/ net' = [net EXCEPT ![t] =
                    [kind |-> "response", failed |-> TRUE, body |-> ""]]
    /\ UNCHANGED <<rtVars, now, created, issued, auth_token, entry_point, closed,
                   running, stack, ret, log, op, pre, post, result, calls>>

\* ----------------------------------------------------------- entry_point
entry_point_begin(t) ==
    /\ At(t, "entry_point", "start")
    /\ UNCHANGED <<rtVars, now, created, issued, auth_token, entry_point, closed,
                   net, log, op, pre, calls>>
    /\ Call(t, "fetched", Frame("_fetch", "start", "EntryPoint", NoParams, FALSE))

\* entry_point() that returns the links without caching them.
entry_point_finishNoCache(t) ==
    /\ At(t, "entry_point", "fetched")
    /\ UNCHANGED <<rtVars, now, created, issued, auth_token, closed, net, log, op,
                   pre, calls>>
    /\ IF ret[t].kind = "raise"
         THEN /\ UNCHANGED entry_point
              /\ Return(t, ret[t])
         ELSE /\ entry_point' = entry_point
              /\ Return(t, RetData(ret[t].data))

entry_point_finish(t) ==
    /\ At(t, "entry_point", "fetched")
    /\ UNCHANGED <<rtVars, now, created, issued, auth_token, closed, net, log, op,
                   pre, calls>>
    /\ IF ret[t].kind = "raise"
         THEN /\ UNCHANGED entry_point
              /\ Return(t, ret[t])
         ELSE /\ entry_point' = ret[t].data
              /\ Return(t, RetData(entry_point'))

\* ---------------------------------------------------- profiles, devices
\* An accessor that fetches the entry point whether or not one is cached.
accessor_beginAlwaysFetches(t) ==
    /\ \/ At(t, "profiles", "start")
       \/ At(t, "devices", "start")
    /\ UNCHANGED <<rtVars, now, created, issued, auth_token, entry_point, closed,
                   net, log, op, pre, calls>>
    /\ Call(t, "located", Frame("entry_point", "start", "", NoParams, FALSE))

\* Both accessors: lines 526-527 and 538-539.
accessor_begin(t) ==
    /\ \/ At(t, "profiles", "start")
       \/ At(t, "devices", "start")
    /\ UNCHANGED <<rtVars, now, created, issued, auth_token, entry_point, closed,
                   net, log, op, pre, calls>>
    /\ IF entry_point = NoData
         THEN Call(t, "located", Frame("entry_point", "start", "", NoParams, FALSE))
         ELSE Goto(t, "located", NoToken)

\* Lines 529-530 and 541-542: the URL is read out of the cached entry point.
accessor_fetch(t) ==
    /\ \/ At(t, "profiles", "located")
       \/ At(t, "devices", "located")
    /\ UNCHANGED <<rtVars, now, created, issued, auth_token, entry_point, closed,
                   net, log, op, pre, calls>>
    /\ IF ret[t].kind = "raise"
         THEN Return(t, ret[t])
         ELSE IF entry_point = NoData
           THEN Return(t, Raise("TypeError"))
           ELSE Call(t, "fetched",
                     Frame("_fetch", "start",
                           IF Top(t).fn = "profiles" THEN "Profiles" ELSE "Devices",
                           NoParams, FALSE))

profiles_finish(t) ==
    /\ At(t, "profiles", "fetched")
    /\ UNCHANGED <<rtVars, now, created, issued, auth_token, entry_point, closed,
                   net, log, op, pre, calls>>
    /\ Return(t, ret[t])

\* Line 543: container['devices']
devices_finish(t) ==
    /\ At(t, "devices", "fetched")
    /\ UNCHANGED <<rtVars, now, created, issued, auth_token, entry_point, closed,
                   net, log, op, pre, calls>>
    /\ IF ret[t].kind = "raise"
         THEN Return(t, ret[t])
         ELSE IF ret[t].data = NoData
           THEN Return(t, Raise("TypeError"))
           ELSE Return(t, RetData("devices"))

\* ------------------------------------------------------- historical_data
historical_data_begin(t) ==
    /\ At(t, "historical_data", "start")
    /\ UNCHANGED <<rtVars, now, created, issued, auth_token, entry_point, closed,
                   net, log, op, pre, calls>>
    /\ Call(t, "fetched",
            Frame("_fetch", "start", "HistoricalData",
                  historical_params(Top(t).params.until), FALSE))

historical_data_finish(t) ==
    /\ At(t, "historical_data", "fetched")
    /\ UNCHANGED <<rtVars, now, created, issued, auth_token, entry_point, closed,
                   net, log, op, pre, calls>>
    /\ Return(t, ret[t])

\* ------------------------------------------------- __aenter__, __aexit__
\* __aexit__() that leaves the session open when it is handed an exception.
__aexit__SkipsOnException(t) ==
    /\ At(t, "__aexit__", "start")
    /\ UNCHANGED <<rtVars, now, created, issued, auth_token, entry_point, net, log,
                   op, pre, calls>>
    /\ closed' = (IF ~ closed /\ ~ Top(t).flag THEN TRUE ELSE closed)
    /\ Return(t, RetNone)

\* __aexit__() that closes without looking at the session's state.
__aexit__RaisesWhenClosed(t) ==
    /\ At(t, "__aexit__", "start")
    /\ UNCHANGED <<rtVars, now, created, issued, auth_token, entry_point, net, log,
                   op, pre, calls>>
    /\ closed' = TRUE
    /\ IF closed THEN Return(t, Raise(SessionClosedError))
                 ELSE Return(t, RetNone)

\* __aexit__() that flips the session's state.
__aexit__Toggles(t) ==
    /\ At(t, "__aexit__", "start")
    /\ UNCHANGED <<rtVars, now, created, issued, auth_token, entry_point, net, log,
                   op, pre, calls>>
    /\ closed' = ~ closed
    /\ Return(t, RetNone)

\* Lines 589-590; exc_type, exc_val and exc_tb are not looked at.
__aexit__(t) ==
    /\ At(t, "__aexit__", "start")
    /\ UNCHANGED <<rtVars, now, created, issued, auth_token, entry_point, net, log,
                   op, pre, calls>>
    /\ closed' = (IF ~ closed THEN TRUE ELSE closed)
    /\ Return(t, RetNone)

\* __aenter__() that authenticates and fetches the entry point whatever the
\* store holds.
__aenter__beginAlways(t) ==
    /\ At(t, "__aenter__", "start")
    /\ UNCHANGED <<rtVars, now, created, issued, auth_token, entry_point, closed,
                   net, log, op, pre, calls>>
    /\ Call(t, "authenticated",
            Frame("authenticate", "start", "", NoParams, FALSE))

__aenter__begin(t) ==
    /\ At(t, "__aenter__", "start")
    /\ UNCHANGED <<rtVars, now, created, issued, auth_token, entry_point, closed,
                   net, log, op, pre, calls>>
    /\ IF auth_token # NoToken /\ is_valid(auth_token, now)
         THEN Return(t, RetData("self"))
         ELSE Call(t, "authenticated",
                   Frame("authenticate", "start", "", NoParams, FALSE))

\* __aenter__() that re-raises without releasing the session.
__aenter__stepNoCleanup(t) ==
    /\ \/ At(t, "__aenter__", "authenticated")
       \/ At(t, "__aenter__", "located")
    /\ UNCHANGED <<rtVars, now, created, issued, auth_token, entry_point, closed,
                   net, log, op, pre, calls>>
    /\ IF ret[t].kind = "raise"
         THEN Return(t, ret[t])
         ELSE IF Top(t).pc = "authenticated"
           THEN Call(t, "located",
                     Frame("entry_point", "start", "", NoParams, FALSE))
           ELSE Return(t, RetData("self"))

\* __aenter__() that does not fetch the entry point.
__aenter__stepSkipsEntryPoint(t) ==
    /\ \/ At(t, "__aenter__", "authenticated")
       \/ At(t, "__aenter__", "located")
    /\ UNCHANGED <<rtVars, now, created, issued, auth_token, entry_point, closed,
                   net, log, op, pre, calls>>
    /\ IF ret[t].kind = "raise"
         THEN /\ stack' = [stack EXCEPT ![t] =
                  Append([@ EXCEPT ![Len(@)].pc = "except",
                                   ![Len(@)].exc = ret[t]],
                         Frame("__aexit__", "start", "", NoParams, TRUE))]
              /\ ret' = [ret EXCEPT ![t] = NoRet]
              /\ running' = t
              /\ UNCHANGED <<result, post>>
         ELSE Return(t, RetData("self"))

\* Lines 578-582: an exception of either call is handed to __aexit__ and
\* kept while it runs.
__aenter__step(t) ==
    /\ \/ At(t, "__aenter__", "authenticated")
       \/ At(t, "__aenter__", "located")
    /\ UNCHANGED <<rtVars, now, created, issued, auth_token, entry_point, closed,
                   net, log, op, pre, calls>>
    /\ IF ret[t].kind = "raise"
         THEN /\ stack' = [stack EXCEPT ![t] =
                  Append([@ EXCEPT ![Len(@)].pc = "except",
                                   ![Len(@)].exc = ret[t]],
                         Frame("__aexit__", "start", "", NoParams, TRUE))]
              /\ ret' = [ret EXCEPT ![t] = NoRet]
              /\ running' = t
              /\ UNCHANGED <<result, post>>
         ELSE IF Top(t).pc = "authenticated"
           THEN Call(t, "located",
                     Frame("entry_point", "start", "", NoParams, FALSE))
           ELSE Return(t, RetData("self"))

__aenter__reraise(t) ==
    /\ At(t, "__aenter__", "except")
    /\ UNCHANGED <<rtVars, now, created, issued, auth_token, entry_point, closed,
                   net, log, op, pre, calls>>
    /\ Return(t, Top(t).exc)

\* ------------------------------------------------------------------ Next
\* Spec: the documented use, one caller that makes its calls one after the
\* other.  SpecConcurrent: every task may have a call in progress.
Callers == {1}

Step(t) ==
         \/ \E f \in Operations : Invoke(t, f)
         \/ AuthEndpoint(t)
         \/ authenticate_begin(t)
         \/ authenticate_finish(t)
         \/ fetch_access_token_request(t)
         \/ fetch_access_token_response(t)
         \/ refresh_access_token_request(t)
         \/ refresh_access_token_response(t)
         \/ ResourceEndpoint(t)
         \/ _fetch_begin(t)
         \/ _fetch_authenticated(t)
         \/ _fetch_response(t)
         \/ entry_point_begin(t)
         \/ entry_point_finish(t)
         \/ accessor_begin(t)
         \/ accessor_fetch(t)
         \/ profiles_finish(t)
         \/ devices_finish(t)
         \/ historical_data_begin(t)
         \/ historical_data_finish(t)
         \/ __aenter__begin(t)
         \/ __aenter__step(t)
         \/ __aenter__reraise(t)
         \/ __aexit__(t)

Next ==
    \/ Tick
    \/ \E t \in Callers : Step(t)

Spec == Init /\ [][Next]_vars

\* Concurrent callers: each task may start authenticate(),
\* refresh_access_token() or a historical_data() fetch while the calls of the
\* other tasks wait for their responses.
ConcurrentOperations ==
    { Frame(fn, "start", "", NoParams, FALSE) :
        fn \in {"authenticate", "refresh_access_token"} } \cup
    { Frame("historical_data", "start", "", historical_arguments(NoUntil), FALSE) }

NextConcurrent ==
    \/ Tick
    \/ \E t \in Tasks :
         \/ \E f \in ConcurrentOperations : Invoke(t, f)
         \/ AuthEndpoint(t)
         \/ ResourceEndpoint(t)
         \/ authenticate_begin(t)
         \/ authenticate_finish(t)
         \/ fetch_access_token_request(t)
         \/ fetch_access_token_response(t)
         \/ refresh_access_token_request(t)
         \/ refresh_access_token_response(t)
         \/ _fetch_begin(t)
         \/ _fetch_authenticated(t)
         \/ _fetch_response(t)
         \/ historical_data_begin(t)
         \/ historical_data_finish(t)

SpecConcurrent == Init /\ [][NextConcurrent]_vars

\* Two tasks that call a resource accessor on the one client, side by side:
\* two calls in all.
Racers == {1, 2}

NextAccessors ==
    \/ Tick
    \/ \E t \in Racers :
         \/ /\ calls < Cardinality(Racers)
            /\ Invoke(t, Frame("historical_data", "start", "",
                               historical_arguments(NoUntil), FALSE))
         \/ AuthEndpoint(t)
         \/ ResourceEndpoint(t)
         \/ authenticate_begin(t)
         \/ authenticate_finish(t)
         \/ fetch_access_token_request(t)
         \/ fetch_access_token_response(t)
         \/ refresh_access_token_request(t)
         \/ refresh_access_token_response(t)
         \/ _fetch_begin(t)
         \/ _fetch_authenticated(t)
         \/ _fetch_response(t)
         \/ historical_data_begin(t)
         \/ historical_data_finish(t)

SpecAccessors == Init /\ [][NextAccessors]_vars

\* ------------------------------------------------------- the scoped use
\* `async with client:` as the tests use it: __aenter__(), then the body's
\* accessor calls one after the other, then __aexit__(), which is handed the
\* exception when the body raised.  When __aenter__() raises, neither the
\* body nor __aexit__() runs.  A caller may close again after the scope.
ScopedOperations(t) ==
    IF op[t].fn = ""
      THEN { Frame("__aenter__", "start", "", NoParams, FALSE) }
    ELSE IF op[t].fn = "__aexit__"
      THEN { Frame("__aexit__", "start", "", NoParams, FALSE) }
    ELSE IF result[t].kind = "raise"
      THEN IF op[t].fn = "__aenter__"
             THEN {}
             ELSE { Frame("__aexit__", "start", "", NoParams, TRUE) }
      ELSE { Frame(fn, "start", "", NoParams, FALSE) :
               fn \in {"profiles", "devices", "__aexit__"} } \cup
           { Frame("historical_data", "start", "",
                   historical_arguments(NoUntil), FALSE) }

\* The scope holds one call more than the free caller makes.
MaxScopedCalls == MaxCalls + 1

InvokeScoped(t, f) ==
    /\ running = 0
    /\ stack[t] = <<>>
    /\ calls < MaxScopedCalls
    /\ calls' = calls + 1
    /\ stack' = [stack EXCEPT ![t] = <<f>>]
    /\ op' = [op EXCEPT ![t] = f]
    /\ pre' = [pre EXCEPT ![t] =
                 Snapshot(auth_token, entry_point, closed, now)]
    /\ post' = [post EXCEPT ![t] = NoSnapshot]
    /\ result' = [result EXCEPT ![t] = NoRet]
    /\ log' = [log EXCEPT ![t] = <<>>]
    /\ ret' = [ret EXCEPT ![t] = NoRet]
    /\ running' = t
    /\ UNCHANGED <<rtVars, now, created, issued, auth_token, entry_point, closed, net>>

NextSession ==
    \/ Tick
    \/ \E t \in Callers :
         \/ \E f \in ScopedOperations(t) : InvokeScoped(t, f)
         \/ AuthEndpoint(t)
         \/ ResourceEndpoint(t)
         \/ authenticate_begin(t)
         \/ authenticate_finish(t)
         \/ fetch_access_token_request(t)
         \/ fetch_access_token_response(t)
         \/ refresh_access_token_request(t)
         \/ refresh_access_token_response(t)
         \/ _fetch_begin(t)
         \/ _fetch_authenticated(t)
         \/ _fetch_response(t)
         \/ entry_point_begin(t)
         \/ entry_point_finish(t)
         \/ accessor_begin(t)
         \/ accessor_fetch(t)
         \/ profiles_finish(t)
         \/ devices_finish(t)
         \/ historical_data_begin(t)
         \/ historical_data_finish(t)
         \/ __aenter__begin(t)
         \/ __aenter__step(t)
         \/ __aenter__reraise(t)
         \/ __aexit__(t)

SpecSession == Init /\ [][NextSession]_vars

\* ------------------------------------------------------ the token alone
\* A caller that works on a token by itself, as the token tests do: it
\* constructs tokens, assigns to expires_in, and reads is_valid, while the
\* clock runs.  auth_token is the token the caller holds, the one a client
\* would be constructed with.  Each operation is plain synchronous code.
TokenArguments ==
    { [access_token |-> NoValue, refresh_token |-> NoValue,
       expires_in |-> 0, user_id |-> 0] } \cup
    { [access_token |-> a, refresh_token |-> r, expires_in |-> e, user_id |-> 1] :
        a \in {NoValue, 1}, r \in {NoValue, 1}, e \in ExpiresInValues \cup {0} }

MaxTokenCalls == MaxCalls + 1

\* bool(): the truth value of what a property returned.
bool(v) == IF v THEN "True" ELSE "False"

\* What the three token operations have in common: one more call, made and
\* ended in the same step.
TokenCall(t, f, r) ==
    /\ running = 0
    /\ stack[t] = <<>>
    /\ calls < MaxTokenCalls
    /\ calls' = calls + 1
    /\ op' = [op EXCEPT ![t] = f]
    /\ pre' = [pre EXCEPT ![t] =
                 Snapshot(auth_token, entry_point, closed, now)]
    /\ post' = [post EXCEPT ![t] =
                  Snapshot(auth_token', entry_point, closed, now)]
    /\ result' = [result EXCEPT ![t] = r]
    /\ log' = [log EXCEPT ![t] = <<>>]
    /\ UNCHANGED <<rtVars, now, issued, entry_point, closed, running, stack, net>>

\* token = AuthToken(...)
NewToken(t, args) ==
    /\ created < MaxTokens
    /\ created' = created + 1
    /\ ret' = ret
    /\ auth_token' = AuthToken(args.access_token, args.refresh_token,
                               args.expires_in, args.user_id, "bearer",
                               now, created + 1)
    /\ TokenCall(t, Frame("AuthToken", "", "", args, FALSE),
                 RetToken(auth_token'))

\* token.expires_in = expires_in
set_expires_in(t, expires_in) ==
    /\ auth_token # NoToken
    /\ auth_token' = [auth_token EXCEPT !.expires_in = expires_in]
    /\ UNCHANGED <<rtVars, created, ret>>
    /\ TokenCall(t, Frame("set_expires_in", "", "",
                          [expires_in |-> expires_in], FALSE),
                 RetNone)

\* token.is_valid
read_is_valid(t) ==
    /\ auth_token # NoToken
    /\ UNCHANGED <<rtVars, auth_token, created, ret>>
    /\ TokenCall(t, Frame("is_valid", "", "", NoParams, FALSE),
                 RetData(bool(is_valid(auth_token, now))))

\* The text the caller keeps from its last token.json(), with the token it
\* was written from.
Kept(tok, text) == [kind |-> "text", tok |-> tok, data |-> text, exc |-> ""]

\* text = token.json()
write_json(t) ==
    /\ auth_token # NoToken
    /\ UNCHANGED <<rtVars, auth_token, created>>
    /\ ret' = [ret EXCEPT ![t] = Kept(auth_token, json(auth_token, now))]
    /\ TokenCall(t, Frame("json", "", "", NoParams, FALSE),
                 RetData(json(auth_token, now)))

\* The texts a caller hands to from_json: the one it kept, one that does not
\* parse, one that parses to something other than an object.
Texts(t) ==
    {MalformedText, ArrayText} \cup
    (IF ret[t].kind = "text" THEN {ret[t].data} ELSE {})

\* other = AuthToken.from_json(data); the client's token is not involved.
read_json(t, data) ==
    /\ created < MaxTokens
    /\ LET r == from_json(data, now, created + 1) IN
         /\ created' = IF r.kind = "value" THEN created + 1 ELSE created
         /\ UNCHANGED <<auth_token, ret>>
         /\ TokenCall(t, Frame("from_json", "", "", [data |-> data], FALSE), r)

\* The values a token is compared with: tokens, None, and an object of
\* another type that carries equal attributes.
Others ==
    { AuthToken(a.access_token, a.refresh_token, a.expires_in, a.user_id,
                ty, now, created + 1) :
        a \in { x \in TokenArguments : x.access_token = x.refresh_token },
        ty \in {"bearer", "mac"} } \cup
    { NoToken } \cup
    (IF auth_token = NoToken THEN {}
     ELSE { [a \in EqualityAttrs |-> auth_token[a]] })

\* token == other (negate FALSE), token != other (negate TRUE)
compare(t, other, negate) ==
    /\ auth_token # NoToken
    /\ UNCHANGED <<rtVars, auth_token, created, ret>>
    /\ TokenCall(t, Frame(IF negate THEN "__ne__" ELSE "__eq__", "", "",
                          [other |-> other], FALSE),
                 RetData(bool(IF negate THEN ne(auth_token, other)
                                        ELSE eq(auth_token, other))))

NextToken ==
    \/ Tick
    \/ \E t \in Callers :
         \/ \E args \in TokenArguments : NewToken(t, args)
         \/ \E e \in ExpiresInValues \cup {0} : set_expires_in(t, e)
         \/ read_is_valid(t)

SpecToken == Init /\ [][NextToken]_vars

\* Tokens being written to JSON and read back, as time passes.
NextSerial ==
    \/ Tick
    \/ \E t \in Callers :
         \/ \E args \in TokenArguments : NewToken(t, args)
         \/ write_json(t)
         \/ \E data \in Texts(t) : read_json(t, data)

SpecSerial == Init /\ [][NextSerial]_vars

\* Tokens being compared, as time passes.
NextCompare ==
    \/ Tick
    \/ \E t \in Callers :
         \/ \E args \in TokenArguments : NewToken(t, args)
         \/ \E other \in Others, negate \in BOOLEAN : compare(t, other, negate)

SpecCompare == Init /\ [][NextCompare]_vars

\* ========================================================= RealTimeClient
\* One RealTimeClient and the one caller that uses it.  `rt` holds the
\* client's _connected and _streaming, whether the caller is inside its
\* `async with` block, and of the last call: its name, what the driver
\* answered, _connected as the call found it, the driver methods it called in
\* order, and what it returned or raised.
restVars == <<now, created, issued, auth_token, entry_point, closed, running,
              stack, ret, net, log, op, pre, post, result, calls>>

MaxRealTimeCalls == MaxCalls + 2

\* hbmqtt.mqtt.connack: the return code of an accepted connection, and one
\* of a refused connection (not authorized).
CONNECTION_ACCEPTED == 0
ReturnCodes == {CONNECTION_ACCEPTED, 5}

\* What the driver's connect() does: it returns a code, or it raises.
ConnectAnswers ==
    { [raises |-> FALSE, rc |-> rc] : rc \in ReturnCodes } \cup
    { [raises |-> TRUE, rc |-> 5] }

\* What the driver's deliver_message() does: it raises an MQTTException, or it
\* returns a packet whose payload is a text: not JSON, JSON that is no
\* object, or an object with or without 'ts' and 'measurements'.
Objects ==
    { [ts |-> ts, measurements |-> m] : ts \in {1, 2}, m \in {"m1", "m2"} } \cup
    { [ts |-> 1], [measurements |-> "m1"], [other |-> 1] }

Deliveries ==
    { [error |-> TRUE, payload |-> MalformedText] } \cup
    { [error |-> FALSE, payload |-> p] :
        p \in {MalformedText, ArrayText} \cup { dumps(o) : o \in Objects } }

ReadNone == [kind |-> "None", timestamp |-> 0, measurements |-> "", exc |-> ""]
ReadRaise(e) == [kind |-> "raise", timestamp |-> 0, measurements |-> "", exc |-> e]
RealTimeMessage(timestamp, measurements) ==
    [kind |-> "RealTimeMessage", timestamp |-> timestamp,
     measurements |-> measurements, exc |-> ""]

\* One more call on the RealTimeClient, made and ended in one step.
RealTimeCall(fn, arg, connected, streaming, scope, driver, res) ==
    /\ rt.n < MaxRealTimeCalls
    /\ rt' = [_connected |-> connected, _streaming |-> streaming,
              scope |-> scope, fn |-> fn, arg |-> arg, was |-> rt._connected,
              driver |-> driver, result |-> res, n |-> rt.n + 1]
    /\ UNCHANGED <<restVars, script>>

\* Lines 193-206: the effect of connect() given the driver's answer.
connect(answer) ==
    IF answer.raises
      THEN [exc |-> "ConnectException", _connected |-> rt._connected,
            driver |-> <<"connect">>]
      ELSE [exc |-> "", _connected |-> (answer.rc = CONNECTION_ACCEPTED),
            driver |-> <<"connect", "subscribe">>]

\* Lines 208-215.
disconnect ==
    [_connected |-> FALSE, driver |-> <<"unsubscribe", "disconnect">>]

\* Lines 236-242: async with client: ... is entered.
RealTime__aenter__(answer) ==
    /\ rt.scope = "outside"
    /\ LET c == connect(answer) IN
         RealTimeCall("__aenter__", answer, c._connected, rt._streaming,
                      IF c.exc = "" THEN "inside" ELSE "outside", c.driver,
                      IF c.exc = "" THEN ReadNone ELSE ReadRaise(c.exc))

\* __aexit__ that disconnects whether or not the client is connected.
RealTime__aexit__Always ==
    /\ rt.scope = "inside"
    /\ RealTimeCall("__aexit__", NoParams, disconnect._connected,
                    rt._streaming, "outside", disconnect.driver, ReadNone)

\* Lines 244-250: the block is left.
RealTime__aexit__ ==
    /\ rt.scope = "inside"
    /\ IF rt._connected
         THEN RealTimeCall("__aexit__", NoParams, disconnect._connected,
                           rt._streaming, "outside", disconnect.driver,
                           ReadNone)
         ELSE RealTimeCall("__aexit__", NoParams, rt._connected,
                           rt._streaming, "outside", <<>>, ReadNone)

\* await client.connect(), called by the caller itself.
RealTime_connect(answer) ==
    LET c == connect(answer) IN
      RealTimeCall("connect", answer, c._connected, rt._streaming, rt.scope,
                   c.driver, IF c.exc = "" THEN ReadNone ELSE ReadRaise(c.exc))

\* await client.disconnect(), called by the caller itself.
RealTime_disconnect ==
    RealTimeCall("disconnect", NoParams, disconnect._connected,
                 rt._streaming, rt.scope, disconnect.driver, ReadNone)

\* Lines 261-278: what read() returns or raises for a delivery.  The except
\* clause names MQTTException, JSONDecodeError and KeyError; subscripting a
\* decoded value that is no object raises TypeError, which it does not name.
read(delivery) ==
    IF delivery.error THEN ReadNone
    ELSE IF ~ delivery.payload.wellformed THEN ReadNone
    ELSE IF delivery.payload.kind # "object" THEN ReadRaise("TypeError")
    ELSE LET decoded == delivery.payload.value IN
           IF "ts" \notin DOMAIN decoded THEN ReadNone
           ELSE IF "measurements" \notin DOMAIN decoded THEN ReadNone
           ELSE RealTimeMessage(decoded.ts, decoded.measurements)

\* await client.read()
RealTime_read(delivery) ==
    RealTimeCall("read", delivery, rt._connected, TRUE, rt.scope,
                 <<"deliver_message">>, read(delivery))

NextRealTime ==
    \/ \E answer \in ConnectAnswers : RealTime__aenter__(answer)
    \/ \E answer \in ConnectAnswers : RealTime_connect(answer)
    \/ \E delivery \in Deliveries : RealTime_read(delivery)
    \/ RealTime_disconnect
    \/ RealTime__aexit__

SpecRealTime == Init /\ [][NextRealTime]_vars

\* ------------------------------------------ scripts/streaming_client.py
\* main() makes one RealTimeClient per profile and gathers one stream() per
\* client; stop() is the handler of SIGINT and SIGTERM.  A step runs from one
\* suspension of a coroutine to the next: the event loop runs one callback
\* at a time, and a coroutine is suspended only while it awaits the driver.
MaxProfiles == NumTasks
MaxStops == MaxCalls

ScriptStep(s) ==
    /\ script' = s
    /\ UNCHANGED <<restVars, rt>>

\* The clients main() has made so far, and the stream()s in their loops.
Made == { c \in 1..script.profiles : script.pc[c] # "" }
Scheduled == { c \in 1..script.profiles : script.pc[c] = "scheduled" }
Looping == { c \in 1..script.profiles : script.pc[c] \in {"connect", "read"} }

\* loop.run_until_complete(main(...)) has not returned: callbacks still run.
LoopRuns == script.main \notin {"finished", "raised"}

\* Lines 42-44: the RestApiClient block is entered and client.profiles() is
\* awaited; it returns so many profiles.
main_profiles(n) ==
    /\ script.main = "start"
    /\ ScriptStep([script EXCEPT !.main = "for", !.profiles = n])

\* Lines 45-47: the next profile's client is made and connected.  A connect()
\* that raises ends main(); one that returns leaves the client connected or
\* not, as the return code says.
main_connect(answer) ==
    /\ script.main = "for"
    /\ Cardinality(Made) < script.profiles
    /\ LET c == Cardinality(Made) + 1
           r == connect(answer)
       IN  IF r.exc # ""
             THEN ScriptStep([script EXCEPT !.main = "raised"])
             ELSE ScriptStep([script EXCEPT !._connected[c] = r._connected,
                                            !.pc[c] = "made"])

\* Line 49: gather() makes a task of every stream(); none has run yet.  With
\* no client there is nothing to wait for.
main_gather ==
    /\ script.main = "for"
    /\ Cardinality(Made) = script.profiles
    /\ ScriptStep([script EXCEPT
                     !.main = IF script.profiles = 0 THEN "finished"
                              ELSE "gather",
                     !.pc = [c \in Tasks |->
                               IF c \in Made THEN "scheduled" ELSE @[c]]])

\* stop() that leaves the flag as it is.
stopKeepsFlag ==
    /\ LoopRuns
    /\ Scheduled = {}
    /\ script.stops < MaxStops
    /\ ScriptStep([script EXCEPT
                     !.stops = @ + 1,
                     !.stopped = @ \/ Looping # {}])

\* Lines 19-21, run by the event loop on SIGINT or SIGTERM.  Callbacks run
\* in the order they were scheduled and gather() schedules its tasks in one
\* go, so the handler runs before the first stream() starts or after the
\* last one has.
stop ==
    /\ LoopRuns
    /\ Scheduled = {}
    /\ script.stops < MaxStops
    /\ ScriptStep([script EXCEPT
                     !.is_streaming = FALSE,
                     !.stops = @ + 1,
                     !.stopped = @ \/ Looping # {}])

\* Lines 28-35, from the test of the flag to the next await: client.connect()
\* when the client is not connected, client.read() when it is, and
\* client.disconnect() (lines 208-215 of client.py: _connected is cleared
\* before the driver is awaited) when the flag is down.
stream_loop(s, c) ==
    IF s.is_streaming
      THEN IF ~ s._connected[c]
             THEN [s EXCEPT !.found[c] = FALSE, !.called[c] = <<"connect">>,
                            !.pc[c] = "connect"]
             ELSE [s EXCEPT !.found[c] = TRUE, !.called[c] = <<"read">>,
                            !.pc[c] = "read"]
      ELSE [s EXCEPT !._connected[c] = disconnect._connected,
                     !.called[c] = <<"disconnect">>,
                     !.pc[c] = "disconnect"]

\* Lines 24-28: a stream() starts, in the order gather() was given them.
stream_begin(c) ==
    /\ script.main = "gather"
    /\ c \in Scheduled
    /\ \A b \in Scheduled : c <= b
    /\ ScriptStep(stream_loop([script EXCEPT !.is_streaming = TRUE], c))

\* Lines 30-32: the awaited client.connect() ends.  If it raises, so does
\* stream(); otherwise client.read() is called, connected or not.
stream_connect(c, answer) ==
    /\ script.main = "gather"
    /\ Scheduled = {}
    /\ script.pc[c] = "connect"
    /\ LET r == connect(answer) IN
         IF r.exc # ""
           THEN ScriptStep([script EXCEPT !.pc[c] = "raised"])
           ELSE ScriptStep([script EXCEPT
                              !._connected[c] = r._connected,
                              !.called[c] = Append(@, "read"),
                              !.pc[c] = "read"])

\* Lines 32-33, 28: the awaited client.read() ends.  What it raises ends
\* stream(); what it returns is logged and the flag is tested again.
stream_read(c, delivery) ==
    /\ script.main = "gather"
    /\ Scheduled = {}
    /\ script.pc[c] = "read"
    /\ IF read(delivery).kind = "raise"
         THEN ScriptStep([script EXCEPT !.pc[c] = "raised"])
         ELSE ScriptStep(stream_loop(script, c))

\* Line 35: the awaited client.disconnect() ends, and stream() with it.
stream_disconnect(c) ==
    /\ script.main = "gather"
    /\ Scheduled = {}
    /\ script.pc[c] = "disconnect"
    /\ ScriptStep([script EXCEPT !.pc[c] = "done"])

\* Line 49: gather() ends, and main() with it, when every stream() has
\* returned or as soon as one has raised; run_until_complete() (line 76)
\* then returns and nothing runs any more.
main_finish ==
    /\ script.main = "gather"
    /\ \/ /\ \A c \in 1..script.profiles : script.pc[c] = "done"
          /\ ScriptStep([script EXCEPT !.main = "finished"])
       \/ /\ \E c \in 1..script.profiles : script.pc[c] = "raised"
          /\ ScriptStep([script EXCEPT !.main = "raised"])

NextStreaming ==
    \/ \E n \in 0..MaxProfiles : main_profiles(n)
    \/ \E answer \in ConnectAnswers : main_connect(answer)
    \/ main_gather
    \/ stop
    \/ \E c \in Tasks : stream_begin(c)
    \/ \E c \in Tasks, answer \in ConnectAnswers : stream_connect(c, answer)
    \/ \E c \in Tasks, delivery \in Deliveries : stream_read(c, delivery)
    \/ \E c \in Tasks : stream_disconnect(c)
    \/ main_finish

SpecStreaming == Init /\ [][NextStreaming]_vars

\* The driver answers every call a stream() awaits: a pending connect(),
\* read() or disconnect() ends, and a task that gather() scheduled starts.
StreamingFairness ==
    \A c \in Tasks :
        /\ WF_vars(stream_begin(c))
        /\ WF_vars(\E answer \in ConnectAnswers : stream_connect(c, answer))
        /\ WF_vars(\E delivery \in Deliveries : stream_read(c, delivery))
        /\ WF_vars(stream_disconnect(c))

SpecStreamingFair == SpecStreaming /\ StreamingFairness

TypeOK ==
    /\ now \in 0..MaxTime
    /\ auth_token.id \in 0..created
    /\ running \in {0} \cup Tasks
    /\ calls \in 0..MaxCalls

\* ===================================================== the claims' terms
\* Validity as the specification words it: access token present, refresh
\* token present, and the time strictly before issuedAt + expiresInSeconds.
ExpiryOf(tok) == tok.generated_on + tok.expires_in
ValidAt(tok, at) ==
    /\ tok.access_token # NoValue
    /\ tok.refresh_token # NoValue
    /\ at < ExpiryOf(tok)

\* The store of a snapshot holds no token / a valid token.
HeldNone(s) == s.auth_token = NoToken
HeldValid(s) == s.auth_token # NoToken /\ ValidAt(s.auth_token, s.now)

\* Task t's call has ended; it returned a value; it raised e.
Done(t) == stack[t] = <<>> /\ result[t].kind # "none"
Returned(t) == Done(t) /\ result[t].kind = "value"
Raised(t, e) == Done(t) /\ result[t].kind = "raise" /\ result[t].exc = e
Called(t, fn) == op[t].fn = fn

\* The kinds of the requests task t's call has sent, in order.
Requests(t) == [i \in 1..Len(log[t]) |-> log[t][i].req]
AuthRequests(t) == { i \in 1..Len(log[t]) : log[t][i].req # "GET" }
Gets(t) == { i \in 1..Len(log[t]) : log[t][i].req = "GET" }

\* A logged grant request was answered with a token that was valid when the
\* client received it.
GrantedValid(e) ==
    e.status = 200 /\ e.granted # NoToken /\ ValidAt(e.granted, e.rat)

Accessors == {"entry_point", "profiles", "devices", "historical_data"}

\* ------------------------------------------------------------------- C1
\* C1: authenticate() on an open session chooses its grant from the store as
\* it finds it: no token held, exactly one password-grant request; a held
\* token that is not valid, exactly one refresh-grant request; a held valid
\* token, no request, the held token returned and the store unchanged.
C1_GrantChosenFromStore ==
    \A t \in Tasks :
        (Done(t) /\ Called(t, "authenticate") /\ ~ pre[t].closed) =>
            /\ HeldNone(pre[t]) => Requests(t) = <<"password">>
            /\ (~ HeldNone(pre[t]) /\ ~ HeldValid(pre[t])) =>
                   Requests(t) = <<"refresh_token">>
            /\ HeldValid(pre[t]) =>
                   /\ log[t] = <<>>
                   /\ result[t] = RetToken(pre[t].auth_token)
                   /\ post[t].auth_token = pre[t].auth_token

C1_Witness ==
    \E t \in Tasks :
        /\ Done(t) /\ Called(t, "authenticate") /\ ~ pre[t].closed
        /\ ~ HeldNone(pre[t]) /\ ~ HeldValid(pre[t])
        /\ Requests(t) = <<"refresh_token">>

\* ------------------------------------------------------------------- C2
\* C2: a call of authenticate() whose grant was refused, or was answered with
\* a token that is not valid, ends by raising AuthenticationError.
C2_FailedGrantRaises ==
    \A t \in Tasks :
        (Done(t) /\ Called(t, "authenticate") /\ log[t] # <<>>
                 /\ ~ GrantedValid(log[t][1])) =>
            Raised(t, "AuthenticationError")

C2_Witness ==
    \E t \in Tasks :
        /\ Done(t) /\ Called(t, "authenticate") /\ log[t] # <<>>
        /\ log[t][1].status = 200
        /\ ~ GrantedValid(log[t][1])
        /\ Raised(t, "AuthenticationError")

\* ------------------------------------------------------------------- C3
\* C3: when authenticate() returns normally, what it returns is the token the
\* store holds, and that token is valid at the moment of the return.
C3_ReturnsHeldValidToken ==
    \A t \in Tasks :
        (Returned(t) /\ Called(t, "authenticate")) =>
            /\ result[t].tok # NoToken
            /\ result[t].tok = post[t].auth_token
            /\ ValidAt(post[t].auth_token, post[t].now)

C3_Witness ==
    \E t \in Tasks :
        /\ Returned(t) /\ Called(t, "authenticate")
        /\ HeldNone(pre[t])
        /\ result[t].tok = post[t].auth_token
        /\ post[t].auth_token # NoToken

\* ------------------------------------------------------------------- C4
\* C4: every resource GET is sent while the store holds a valid token; a call
\* that finds the store without a valid token sends an auth request before
\* any GET, and a GET follows an auth request only when that request was
\* answered with a valid token (authenticate() returned normally).
C4_GetOnlyWithValidToken ==
    \A t \in Tasks :
        /\ \A i \in Gets(t) :
              /\ log[t][i].held # NoToken
              /\ ValidAt(log[t][i].held, log[t][i].at)
              /\ (i > 1 /\ (i - 1) \in AuthRequests(t)) =>
                    GrantedValid(log[t][i - 1])
        /\ (op[t].fn \in Accessors /\ ~ HeldValid(pre[t]) /\ log[t] # <<>>) =>
              1 \in AuthRequests(t)

C4_Witness ==
    \E t \in Tasks :
        /\ Done(t) /\ op[t].fn \in Accessors /\ ~ HeldValid(pre[t])
        /\ Len(log[t]) >= 2
        /\ 1 \in AuthRequests(t) /\ 2 \in Gets(t)

\* ------------------------------------------------------------------- C5
\* The case of C5: an accessor called on an open session whose held token has
\* expired; the call's one auth request is a refresh grant, answered with a
\* token that is valid on receipt; every GET of the call is answered in JSON.
C5_Case(t) ==
    /\ Done(t) /\ op[t].fn \in Accessors
    /\ ~ pre[t].closed
    /\ ~ HeldNone(pre[t])
    /\ pre[t].now >= ExpiryOf(pre[t].auth_token)
    /\ AuthRequests(t) = {1}
    /\ log[t][1].req = "refresh_token"
    /\ GrantedValid(log[t][1])
    /\ \A i \in Gets(t) : log[t][i].body = "json"

\* C5 as claimed: the fetch returns its resource, the store afterwards holds a
\* valid token, another instance than the expired one, with a later expiry.
C5_StoreValidAfterwards ==
    \A t \in Tasks :
        C5_Case(t) =>
            /\ Returned(t) /\ result[t].data # NoData
            /\ post[t].auth_token.id # pre[t].auth_token.id
            /\ ValidAt(post[t].auth_token, post[t].now)
            /\ ExpiryOf(pre[t].auth_token) < ExpiryOf(post[t].auth_token)

\* C5 as amended: the fetch returns its resource; the store afterwards holds
\* the refreshed token, another instance than the expired one, with a later
\* expiry; that token was valid when each GET was sent, and it is still valid
\* at the return unless its own lifetime ran out while the GET was in flight.
C5_TokenReplacedBeforeGet ==
    \A t \in Tasks :
        C5_Case(t) =>
            /\ Returned(t) /\ result[t].data # NoData
            /\ post[t].auth_token.id # pre[t].auth_token.id
            /\ post[t].auth_token = log[t][1].granted
            /\ ExpiryOf(pre[t].auth_token) < ExpiryOf(post[t].auth_token)
            /\ \A i \in Gets(t) :
                  /\ log[t][i].held = post[t].auth_token
                  /\ ValidAt(log[t][i].held, log[t][i].at)
            /\ post[t].now < ExpiryOf(post[t].auth_token) =>
                  ValidAt(post[t].auth_token, post[t].now)

C5_Witness ==
    \E t \in Tasks :
        /\ C5_Case(t)
        /\ Gets(t) # {}
        /\ result[t].data # NoData
        /\ ValidAt(post[t].auth_token, post[t].now)

\* ------------------------------------------------------------------- C6
\* C6: when refresh_access_token() returns a token, the store holds exactly
\* that token instance at the return, and no longer the one held before.
C6_RefreshInstallsReturnedToken ==
    \A t \in Tasks :
        (Returned(t) /\ Called(t, "refresh_access_token")
                     /\ result[t].tok # NoToken) =>
            /\ post[t].auth_token = result[t].tok
            /\ post[t].auth_token.id # pre[t].auth_token.id
            /\ result[t].tok = log[t][1].granted

C6_Witness ==
    \E t \in Tasks :
        /\ Returned(t) /\ Called(t, "refresh_access_token")
        /\ result[t].tok # NoToken
        /\ ~ HeldNone(pre[t])
        /\ post[t].auth_token = result[t].tok

\* ------------------------------------------------------------------- C7
\* C7: refresh_access_token() called while the store holds no token raises
\* NoExistingTokenError, sends no request and leaves the store empty.
C7_RefreshWithoutTokenRaises ==
    \A t \in Tasks :
        (Done(t) /\ Called(t, "refresh_access_token") /\ HeldNone(pre[t])) =>
            /\ Raised(t, "NoExistingTokenError")
            /\ log[t] = <<>>
            /\ HeldNone(post[t])

C7_Witness ==
    \E t \in Tasks :
        /\ Called(t, "refresh_access_token") /\ HeldNone(pre[t])
        /\ Raised(t, "NoExistingTokenError")

\* ------------------------------------------------------------------- C8
\* C8: refresh_access_token() called with a held token returns None, and
\* raises nothing, when the auth endpoint refuses the refresh grant.
C8_RefusedRefreshReturnsNone ==
    \A t \in Tasks :
        (Done(t) /\ Called(t, "refresh_access_token") /\ ~ HeldNone(pre[t])
                 /\ log[t] # <<>> /\ log[t][1].status # 200) =>
            result[t] = RetNone

C8_Witness ==
    \E t \in Tasks :
        /\ Done(t) /\ Called(t, "refresh_access_token") /\ ~ HeldNone(pre[t])
        /\ log[t] # <<>> /\ log[t][1].req = "refresh_token"
        /\ log[t][1].status = 401
        /\ result[t] = RetNone

\* ------------------------------------------------------------------- C9
\* C9: fetch_access_token() returns None, and raises nothing, when the auth
\* endpoint refuses the password grant, with the stored credentials and with
\* credentials given in the call.
C9_RefusedPasswordGrantReturnsNone ==
    \A t \in Tasks :
        (Done(t) /\ Called(t, "fetch_access_token")
                 /\ log[t] # <<>> /\ log[t][1].status # 200) =>
            /\ result[t] = RetNone
            /\ log[t][1].msg.data.username =
                  (IF op[t].flag THEN "other" ELSE "auth_username")

C9_Witness ==
    \E t \in Tasks :
        /\ Done(t) /\ Called(t, "fetch_access_token") /\ op[t].flag
        /\ log[t] # <<>> /\ log[t][1].status = 401
        /\ log[t][1].msg.data.username = "other"
        /\ result[t] = RetNone

\* ------------------------------------------------------------------ C10
\* C10: an accessor (entry point, profiles, devices, historical data) whose
\* resource endpoint answered with a body that is not JSON returns None and
\* raises nothing.
C10_NonJsonBodyReturnsNone ==
    \A t \in Tasks :
        (Done(t) /\ op[t].fn \in Accessors
                 /\ \E i \in Gets(t) : log[t][i].body = "not json") =>
            result[t] = RetNone

\* ------------------------------------------------------------------ C11
\* The case of C11: __aenter__() on a client that holds no token; the
\* password grant is answered with a token that is valid on receipt and the
\* entry-point GET is answered in JSON.
C11_Case(t) ==
    /\ Done(t) /\ Called(t, "__aenter__")
    /\ HeldNone(pre[t])
    /\ log[t] # <<>>
    /\ log[t][1].req = "password"
    /\ GrantedValid(log[t][1])
    /\ \A i \in Gets(t) : log[t][i].body = "json"

\* C11 as claimed: the entry ends with the store holding a valid token and
\* the client's entry point populated.
C11_EntryEndsValid ==
    \A t \in Tasks :
        C11_Case(t) =>
            /\ Returned(t)
            /\ HeldValid(post[t])
            /\ post[t].entry_point # NoData

\* C11 as amended: the entry sends the password grant and then the
\* entry-point GET, returns, and leaves the granted token in the store and
\* the entry point populated; the token was valid when the GET was sent, and
\* it is still valid at the return unless its own lifetime ran out while the
\* GET was in flight.
C11_EntryInstallsTokenAndEntryPoint ==
    \A t \in Tasks :
        C11_Case(t) =>
            /\ Returned(t)
            /\ Requests(t) = <<"password", "GET">>
            /\ post[t].auth_token = log[t][1].granted
            /\ log[t][2].held = post[t].auth_token
            /\ ValidAt(log[t][2].held, log[t][2].at)
            /\ post[t].entry_point # NoData
            /\ post[t].now < ExpiryOf(post[t].auth_token) => HeldValid(post[t])

C11_Witness ==
    \E t \in Tasks :
        /\ C11_Case(t)
        /\ Requests(t) = <<"password", "GET">>
        /\ HeldValid(post[t])
        /\ post[t].entry_point # NoData

\* ------------------------------------------------------------------ C12
\* The case of C12: __aenter__() on a client that holds an expired token; the
\* refresh grant is answered with a token that is valid on receipt, and the
\* entry-point GET is answered.
C12_Case(t) ==
    /\ Done(t) /\ Called(t, "__aenter__")
    /\ ~ HeldNone(pre[t])
    /\ pre[t].now >= ExpiryOf(pre[t].auth_token)
    /\ log[t] # <<>>
    /\ log[t][1].req = "refresh_token"
    /\ GrantedValid(log[t][1])
    /\ \A i \in Gets(t) : log[t][i].status = 200

\* C12 as claimed: authenticate() runs, then the entry-point fetch, and the
\* entry ends with the store holding a valid token that is not equal to the
\* expired one.
C12_EntryReplacesExpiredWithValid ==
    \A t \in Tasks :
        C12_Case(t) =>
            /\ Returned(t)
            /\ Requests(t) = <<"refresh_token", "GET">>
            /\ HeldValid(post[t])
            /\ ne(post[t].auth_token, pre[t].auth_token)

\* C12 as amended: the refresh grant of authenticate() is sent first and the
\* entry-point GET second; the entry ends with the store holding the granted
\* token, which is not equal to the expired one and was valid when the GET
\* was sent; it is still valid at the return unless its own lifetime ran out
\* while the GET was in flight.
C12_EntryReplacesExpiredToken ==
    \A t \in Tasks :
        C12_Case(t) =>
            /\ Returned(t)
            /\ Requests(t) = <<"refresh_token", "GET">>
            /\ post[t].auth_token = log[t][1].granted
            /\ log[t][2].held = post[t].auth_token
            /\ ValidAt(log[t][2].held, log[t][2].at)
            /\ ne(post[t].auth_token, pre[t].auth_token)
            /\ post[t].now < ExpiryOf(post[t].auth_token) => HeldValid(post[t])

C12_Witness ==
    \E t \in Tasks :
        /\ C12_Case(t)
        /\ Requests(t) = <<"refresh_token", "GET">>
        /\ HeldValid(post[t])
        /\ ne(post[t].auth_token, pre[t].auth_token)

\* ------------------------------------------------------------------ C13
\* C13: __aenter__() on a client whose held token is valid returns at once:
\* it sends no request, neither to the auth endpoint nor for the entry point,
\* and leaves the store's token, the cached entry point and the session as
\* they were.
C13_EntryWithValidTokenDoesNothing ==
    \A t \in Tasks :
        (Called(t, "__aenter__") /\ HeldValid(pre[t])) =>
            /\ log[t] = <<>>
            /\ Done(t) =>
                  /\ result[t] = RetData("self")
                  /\ post[t] = pre[t]

C13_Witness ==
    \E t \in Tasks :
        /\ Done(t) /\ Called(t, "__aenter__") /\ HeldValid(pre[t])
        /\ log[t] = <<>>
        /\ post[t].auth_token = pre[t].auth_token

\* ------------------------------------------------------------------ C14
\* C14: __aenter__() on a client that holds no token, when the auth endpoint
\* refuses the grant with HTTP 401, raises AuthenticationError after the one
\* password-grant request, with the session closed and the store still
\* holding no token.
C14_RefusedEntryRaisesAndCloses ==
    \A t \in Tasks :
        (Done(t) /\ Called(t, "__aenter__") /\ HeldNone(pre[t])
                 /\ log[t] # <<>> /\ log[t][1].status = 401) =>
            /\ Raised(t, "AuthenticationError")
            /\ Requests(t) = <<"password">>
            /\ post[t].closed
            /\ HeldNone(post[t])

C14_Witness ==
    \E t \in Tasks :
        /\ Done(t) /\ Called(t, "__aenter__") /\ HeldNone(pre[t])
        /\ ~ pre[t].closed
        /\ log[t] # <<>> /\ log[t][1].status = 401
        /\ Raised(t, "AuthenticationError")
        /\ post[t].closed

\* ------------------------------------------------------------------ C15
\* C15: the session is closed on every path out of the session scope: when
\* __aexit__() has run for a body that ended normally, when it has run for a
\* body that raised, and when __aenter__() fails, whether in authenticate()
\* or in the entry-point fetch; a failed entry reaches the caller with the
\* session already closed.
C15_ReleasedOnEveryExit ==
    \A t \in Tasks :
        /\ (Done(t) /\ Called(t, "__aexit__")) => post[t].closed
        /\ (Done(t) /\ Called(t, "__aenter__") /\ result[t].kind = "raise") =>
              post[t].closed
        /\ At(t, "__aenter__", "except") => closed

C15_Witness ==
    \E t \in Tasks :
        /\ Done(t) /\ Called(t, "__aenter__") /\ ~ pre[t].closed
        /\ result[t].kind = "raise"
        /\ \E i \in Gets(t) : log[t][i].status = 0
        /\ post[t].closed

\* The scoped body raised and __aexit__() released the session.
C15_WitnessBodyRaised ==
    \E t \in Tasks :
        /\ Done(t) /\ Called(t, "__aexit__") /\ op[t].flag
        /\ ~ pre[t].closed /\ post[t].closed

\* ------------------------------------------------------------------ C16
\* C16: __aexit__() always returns None, raising nothing, and leaves the
\* session closed whatever state it found it in; on a session that is
\* already closed it changes nothing.
C16_ExitIdempotent ==
    \A t \in Tasks :
        (Done(t) /\ Called(t, "__aexit__")) =>
            /\ result[t] = RetNone
            /\ post[t].closed
            /\ log[t] = <<>>
            /\ pre[t].closed => post[t] = pre[t]

C16_Witness ==
    \E t \in Tasks :
        /\ Done(t) /\ Called(t, "__aexit__")
        /\ pre[t].closed
        /\ result[t] = RetNone
        /\ post[t].closed

\* ------------------------------------------------------------------ C17
\* C17: Closed is terminal.  Once the session is closed, no step opens it
\* again, puts a request on the wire, constructs a token or changes the store
\* or the cached entry point; every call made on a closed session ends with
\* no request sent and the store as it found it, and __aexit__() is the call
\* that is still accepted: it returns None.
C17_ClosedIsTerminal ==
    /\ [][closed => /\ closed'
                    /\ auth_token' = auth_token
                    /\ entry_point' = entry_point
                    /\ created' = created
                    /\ net' = net]_vars
    /\ [](\A t \in Tasks :
            (Done(t) /\ pre[t].closed) =>
                /\ log[t] = <<>>
                /\ post[t] = pre[t]
                /\ Called(t, "__aexit__") => result[t] = RetNone)

C17_Witness ==
    \E t \in Tasks :
        /\ Done(t) /\ pre[t].closed
        /\ op[t].fn \in Accessors
        /\ ~ HeldNone(pre[t]) /\ ~ HeldValid(pre[t])
        /\ Raised(t, SessionClosedError)
        /\ log[t] = <<>>
        /\ post[t].auth_token = pre[t].auth_token

\* ------------------------------------------------------------------ C18
\* The grant task t is in the middle of: a frame of fetch_access_token() or
\* refresh_access_token() is on its stack, or authenticate() has had its
\* grant answered and has not yet acted on it.
GrantOf(t) ==
    IF \E i \in 1..Len(stack[t]) : stack[t][i].fn = "fetch_access_token"
      THEN "password"
    ELSE IF \E i \in 1..Len(stack[t]) : stack[t][i].fn = "refresh_access_token"
      THEN "refresh_token"
    ELSE IF /\ \E i \in 1..Len(stack[t]) :
                  stack[t][i].fn = "authenticate" /\ stack[t][i].pc = "granted"
            /\ log[t] # <<>>
      THEN log[t][Len(log[t])].req
      ELSE "none"

\* The state of the client session, in the specification's terms.
SessionState ==
    IF closed THEN "Closed"
    ELSE IF \E t \in Tasks : GrantOf(t) = "password" THEN "Authenticating"
    ELSE IF \E t \in Tasks : GrantOf(t) = "refresh_token" THEN "Refreshing"
    ELSE IF auth_token # NoToken THEN "Authenticated"
    ELSE "Unauthenticated"

\* The transitions of the state machine as the specification draws it.
StatedTransitions ==
    { <<"Unauthenticated", "Authenticating">>,
      <<"Authenticating", "Authenticated">>,
      <<"Authenticated", "Refreshing">>,
      <<"Refreshing", "Authenticated">>,
      <<"Authenticated", "Closed">> }

\* C18 as claimed: a session is Unauthenticated when its first call is made
\* and only ever takes the stated transitions.
C18_StatedMachine ==
    [][/\ (calls = 0 /\ calls' = 1) => SessionState = "Unauthenticated"
       /\ SessionState' # SessionState =>
             <<SessionState, SessionState'>> \in StatedTransitions]_vars

\* C18 as amended: a session starts Unauthenticated when the client was
\* constructed without a token and Authenticated when it was constructed
\* with one; besides the stated transitions it goes from Authenticating back
\* to Unauthenticated when the password grant fails, and from
\* Unauthenticated to Closed when __aenter__() releases the session after
\* that failure; no other transition occurs, Closed is never left, and the
\* session is Closed once __aexit__() has run or __aenter__() has failed.
C18_SessionMachine ==
    /\ SessionState = (IF auth_token = NoToken THEN "Unauthenticated"
                                               ELSE "Authenticated")
    /\ [][SessionState' # SessionState =>
             <<SessionState, SessionState'>> \in
                 StatedTransitions \cup
                 { <<"Authenticating", "Unauthenticated">>,
                   <<"Unauthenticated", "Closed">> }]_vars
    /\ [](\A t \in Tasks :
            (Done(t) /\ \/ Called(t, "__aexit__")
                        \/ Called(t, "__aenter__") /\ result[t].kind = "raise") =>
                SessionState = "Closed")

\* A session that has gone through Refreshing on a resource request and has
\* then been closed.
C18_Witness ==
    \E t \in Tasks :
        /\ SessionState = "Closed"
        /\ Done(t) /\ Called(t, "__aexit__") /\ ~ pre[t].closed
        /\ calls = MaxScopedCalls
        /\ ~ HeldNone(post[t])
        /\ created > 1

\* ------------------------------------------------------------------ C19
\* C19: at every instant the held token is valid exactly when its access
\* token is present, its refresh token is present and the time is strictly
\* before issuedAt + expiresInSeconds, and that is what every read of
\* is_valid reports; a token constructed with empty fields is never valid.
C19_ValidExactlyWhen ==
    /\ auth_token # NoToken =>
          /\ is_valid(auth_token, now) <=> ValidAt(auth_token, now)
          /\ (auth_token.access_token = NoValue
                 /\ auth_token.refresh_token = NoValue) =>
                ~ is_valid(auth_token, now)
    /\ \A t \in Tasks :
          (Done(t) /\ Called(t, "is_valid")) =>
              result[t].data = bool(/\ pre[t].auth_token.access_token # NoValue
                                    /\ pre[t].auth_token.refresh_token # NoValue
                                    /\ pre[t].now <
                                          pre[t].auth_token.generated_on
                                            + pre[t].auth_token.expires_in)

\* is_valid is read at the very instant of the expiry, and says no.
C19_Witness ==
    \E t \in Tasks :
        /\ Done(t) /\ Called(t, "is_valid")
        /\ pre[t].auth_token.access_token # NoValue
        /\ pre[t].auth_token.refresh_token # NoValue
        /\ pre[t].auth_token.expires_in > 0
        /\ pre[t].now = ExpiryOf(pre[t].auth_token)
        /\ result[t].data = "False"

\* ------------------------------------------------------------------ C20
\* C20: after expires_in of a token that was valid at issuance is set to a
\* negative value, the token is not valid, then and at every later instant
\* while it is left alone, and the assignment has changed no other field:
\* access_token, refresh_token, user_id, token_type and generated_on (and the
\* object's identity) are as before.
C20_NegativeLifetimeInvalidates ==
    \A t \in Tasks :
        (/\ Done(t) /\ Called(t, "set_expires_in")
         /\ op[t].params.expires_in < 0
         /\ ValidAt(pre[t].auth_token, pre[t].auth_token.generated_on)) =>
            /\ ~ is_valid(post[t].auth_token, post[t].now)
            /\ auth_token = post[t].auth_token => ~ is_valid(auth_token, now)
            /\ post[t].auth_token =
                  [pre[t].auth_token EXCEPT !.expires_in = op[t].params.expires_in]

\* The token was still valid when its lifetime was set negative.
C20_Witness ==
    \E t \in Tasks :
        /\ Done(t) /\ Called(t, "set_expires_in")
        /\ op[t].params.expires_in < 0
        /\ ValidAt(pre[t].auth_token, pre[t].now)
        /\ ~ ValidAt(post[t].auth_token, post[t].now)
        /\ post[t].auth_token.access_token = pre[t].auth_token.access_token

\* ------------------------------------------- serialization and equality
\* The four attributes the specification's token equality compares.
SameCredentials(a, b) ==
    /\ a.access_token = b.access_token
    /\ a.refresh_token = b.refresh_token
    /\ a.user_id = b.user_id
    /\ a.token_type = b.token_type

\* The value is a token: not None, and not an object of another type.
IsToken(v) == DOMAIN v = DOMAIN NoToken /\ v.id # 0

\* Task t's last call deserialized the text it kept from json().
RoundTrip(t) ==
    /\ Called(t, "from_json")
    /\ Done(t)
    /\ ret[t].kind = "text"
    /\ op[t].params.data = ret[t].data

\* C21: deserializing the text a token was serialized to gives a token equal
\* to that token under token equality, however much time passed between the
\* token's construction, its serialization and the deserialization.
C21_RoundTripEqual ==
    \A t \in Tasks :
        RoundTrip(t) =>
            /\ Returned(t)
            /\ IsToken(result[t].tok)
            /\ SameCredentials(result[t].tok, ret[t].tok)
            /\ eq(result[t].tok, ret[t].tok) /\ ~ ne(result[t].tok, ret[t].tok)

\* A round trip of a token with credentials, serialized some time after its
\* construction and deserialized some time after that.
C21_Witness ==
    \E t \in Tasks :
        /\ RoundTrip(t)
        /\ Returned(t)
        /\ ret[t].tok.user_id = 1 /\ ret[t].tok.access_token = 1
        /\ ret[t].data.value.expires_in < ret[t].tok.expires_in
        /\ result[t].tok.generated_on + result[t].tok.expires_in
             > ExpiryOf(ret[t].tok)
        /\ eq(result[t].tok, ret[t].tok)

\* C23: json() writes as expires_in the lifetime that remains when it is
\* called, the token's expiry minus the current time, and so a negative
\* number for a token that has already expired.
C23_WritesRemainingLifetime ==
    \A t \in Tasks :
        Called(t, "json") /\ Done(t) =>
            /\ Returned(t)
            /\ result[t].data.wellformed /\ result[t].data.kind = "object"
            /\ result[t].data.value.expires_in
                 = ExpiryOf(pre[t].auth_token) - pre[t].now
            /\ pre[t].now > ExpiryOf(pre[t].auth_token)
                 => result[t].data.value.expires_in < 0

\* A token serialized after its expiry: the written lifetime is negative and
\* is not the lifetime the token was issued with.
C23_Witness ==
    \E t \in Tasks :
        /\ Called(t, "json") /\ Returned(t)
        /\ pre[t].now > ExpiryOf(pre[t].auth_token)
        /\ result[t].data.value.expires_in < 0
        /\ result[t].data.value.expires_in # pre[t].auth_token.expires_in

\* C24: a token that was serialized and later deserialized expires when the
\* original expires, and is valid exactly when the original is.
C24_RoundTripKeepsExpiry ==
    \A t \in Tasks :
        RoundTrip(t) /\ Returned(t) =>
            /\ ExpiryOf(result[t].tok) = ExpiryOf(ret[t].tok)
            /\ ValidAt(result[t].tok, now) <=> ValidAt(ret[t].tok, now)

\* C25: from_json of a text that is not well-formed raises the error of a
\* malformed token; no token comes out of the call and the token the client
\* holds is untouched.
C25_MalformedTextRaises ==
    \A t \in Tasks :
        Called(t, "from_json") /\ Done(t) /\ ~ op[t].params.data.wellformed =>
            /\ Raised(t, MalformedTokenError)
            /\ result[t].tok = NoToken
            /\ post[t].auth_token = pre[t].auth_token
            /\ auth_token = post[t].auth_token

\* A malformed text was refused while a token was held.
C25_Witness ==
    \E t \in Tasks :
        /\ Called(t, "from_json")
        /\ op[t].params.data = MalformedText
        /\ Raised(t, MalformedTokenError)
        /\ auth_token # NoToken
        /\ post[t].auth_token = pre[t].auth_token

\* Task t's last call compared the held token with a value.
Compared(t) == Done(t) /\ (Called(t, "__eq__") \/ Called(t, "__ne__"))

\* C22: a token equals a value exactly when the value is a token with the
\* same access token, refresh token, user id and token type; when it was
\* issued and for how long plays no part, tokens that differ in the user id
\* alone are unequal, and no token equals a value that is not a token.
C22_EqualityOnCredentials ==
    \A t \in Tasks :
        Compared(t) =>
            LET self == pre[t].auth_token
                other == op[t].params.other
                equal == IsToken(other) /\ SameCredentials(self, other)
            IN  /\ Called(t, "__eq__") => result[t].data = bool(equal)
                /\ Called(t, "__ne__") => result[t].data = bool(~ equal)

\* Two tokens that differ in the user id alone were found unequal.
C22_Witness ==
    \E t \in Tasks :
        /\ Called(t, "__eq__") /\ Done(t)
        /\ IsToken(op[t].params.other)
        /\ op[t].params.other.user_id # pre[t].auth_token.user_id
        /\ \A a \in {"access_token", "refresh_token", "token_type",
                     "expires_in", "generated_on"} :
               op[t].params.other[a] = pre[t].auth_token[a]
        /\ result[t].data = "False"

\* Tokens issued at different times for different lifetimes were found equal.
C22_WitnessTimingIgnored ==
    \E t \in Tasks :
        /\ Called(t, "__eq__") /\ Done(t)
        /\ IsToken(op[t].params.other)
        /\ op[t].params.other.expires_in # pre[t].auth_token.expires_in
        /\ op[t].params.other.generated_on # pre[t].auth_token.generated_on
        /\ result[t].data = "True"

\* A token was found unequal to a value that is not a token.
C22_WitnessNonToken ==
    \E t \in Tasks :
        /\ Called(t, "__eq__") /\ Done(t)
        /\ ~ IsToken(op[t].params.other)
        /\ op[t].params.other # NoToken
        /\ result[t].data = "False"

\* ------------------------------------------------------------------ C26
\* The requests for historical data that task t's call has sent.
HistoricalGets(t) ==
    { i \in Gets(t) : log[t][i].msg.url = "HistoricalData" }

\* C26: every request for historical data carries the granularity, the unit
\* and `since` of the call, and carries `until` exactly when the caller
\* supplied one, a supplied 0 included.
C26_UntilOnlyWhenSupplied ==
    \A t \in Tasks :
        Called(t, "historical_data") =>
            \A i \in HistoricalGets(t) :
                LET sent == log[t][i].msg.params
                    args == op[t].params
                IN  /\ {"granularity", "unit", "since"} \subseteq DOMAIN sent
                    /\ sent.granularity = args.granularity
                    /\ sent.unit = args.unit
                    /\ sent.since = args.since
                    /\ "until" \in DOMAIN sent <=> args.until # NoUntil
                    /\ "until" \in DOMAIN sent => sent.until = args.until
                    /\ DOMAIN sent \subseteq
                         {"granularity", "unit", "since", "until"}

\* A request carrying until = 0 was sent for a call that supplied 0.
C26_Witness ==
    \E t \in Tasks :
        /\ Called(t, "historical_data") /\ Done(t)
        /\ op[t].params.until = 0
        /\ \E i \in HistoricalGets(t) :
              /\ "until" \in DOMAIN log[t][i].msg.params
              /\ log[t][i].msg.params.until = 0
              /\ log[t][i].status = 200

\* A request was sent without `until` for a call that supplied none.
C26_WitnessNoUntil ==
    \E t \in Tasks :
        /\ Called(t, "historical_data") /\ Done(t)
        /\ op[t].params.until = NoUntil
        /\ \E i \in HistoricalGets(t) :
              "until" \notin DOMAIN log[t][i].msg.params

\* ------------------------------------------------------------------ C27
\* The resources task t's call has requested, in order.
GetUrls(t) ==
    LET IsGet(e) == e.req = "GET"
        gets == SelectSeq(log[t], IsGet)
    IN  [i \in 1..Len(gets) |-> gets[i].msg.url]

IsPrefix(s, w) == Len(s) <= Len(w) /\ \A i \in 1..Len(s) : s[i] = w[i]

OwnResource(t) == IF Called(t, "profiles") THEN "Profiles" ELSE "Devices"

\* C27: profiles() and devices() request the entry point before their own
\* resource exactly when the client has none cached, and a fetched entry point
\* is cached on the client; with an entry point cached they request their own
\* resource only and leave the cache alone.
C27_EntryPointLazyAndCached ==
    \A t \in Tasks :
        Called(t, "profiles") \/ Called(t, "devices") =>
            LET cached == pre[t].entry_point # NoData
                expected == IF cached THEN <<OwnResource(t)>>
                            ELSE <<"EntryPoint", OwnResource(t)>>
            IN  /\ IsPrefix(GetUrls(t), expected)
                /\ Returned(t) => GetUrls(t) = expected
                /\ Done(t) /\ cached => post[t].entry_point = pre[t].entry_point
                /\ (/\ Done(t) /\ ~ cached
                    /\ \E i \in Gets(t) : /\ log[t][i].msg.url = "EntryPoint"
                                          /\ log[t][i].status = 200
                                          /\ log[t][i].body = "json")
                     => post[t].entry_point = "EntryPoint"

\* An accessor fetched and cached the entry point and then its own resource.
C27_Witness ==
    \E t \in Tasks :
        /\ Called(t, "devices") /\ Returned(t)
        /\ pre[t].entry_point = NoData
        /\ GetUrls(t) = <<"EntryPoint", "Devices">>
        /\ post[t].entry_point = "EntryPoint"

\* An accessor found the entry point cached and requested its resource only.
C27_WitnessCached ==
    \E t \in Tasks :
        /\ Called(t, "profiles") /\ Returned(t)
        /\ pre[t].entry_point # NoData
        /\ GetUrls(t) = <<"Profiles">>

\* ------------------------------------------------------------------ C28
\* Task t's accessor call found the client holding a token that had expired.
FoundExpired(t) ==
    /\ Called(t, "historical_data")
    /\ pre[t].auth_token # NoToken
    /\ ~ ValidAt(pre[t].auth_token, pre[t].now)

\* Task t's refresh grant is in flight: sent and not yet handled.
RefreshInFlight(t) ==
    /\ stack[t] # <<>>
    /\ Top(t).fn = "refresh_access_token"
    /\ net[t].kind \in {"request", "response"}

\* C28: nothing in the client keeps concurrent accessor calls from refreshing
\* the same token: every accessor call that finds the held token expired
\* sends, as its first request, a refresh grant built from that token's
\* refresh token, whatever the other calls on the client are doing.
C28_EveryObserverRefreshes ==
    \A t \in Tasks :
        FoundExpired(t) /\ running # t =>
            /\ log[t] # <<>>
            /\ log[t][1].req = "refresh_token"
            /\ log[t][1].held = pre[t].auth_token
            /\ log[t][1].msg.data.refresh_token = pre[t].auth_token.refresh_token

\* Two accessor calls found the same expired token, and the refresh grants of
\* both, built from the same refresh token, are in flight at once.
C28_Witness ==
    \E t, u \in Tasks :
        /\ t # u
        /\ FoundExpired(t) /\ FoundExpired(u)
        /\ pre[t].auth_token = pre[u].auth_token
        /\ pre[t].auth_token.refresh_token # NoValue
        /\ RefreshInFlight(t) /\ RefreshInFlight(u)
        /\ net[t].kind = "request" /\ net[u].kind = "request"
        /\ net[t].data.grant_type = "refresh_token"
        /\ net[u].data.grant_type = "refresh_token"
        /\ net[t].data.refresh_token = pre[t].auth_token.refresh_token
        /\ net[u].data.refresh_token = net[t].data.refresh_token

\* ------------------------------------------------------------------ C29
\* C29: entering the block calls the driver's connect and subscribe, and the
\* client is connected inside the block when the driver accepted the
\* connection; leaving the block calls unsubscribe and disconnect exactly
\* when the client is connected at that moment, and leaves it not connected.
C29_ScopedConnection ==
    /\ (rt.fn = "__aenter__" /\ rt.result.kind # "raise") =>
          /\ rt.scope = "inside"
          /\ rt.driver = <<"connect", "subscribe">>
          /\ rt.arg.rc = CONNECTION_ACCEPTED => rt._connected
    /\ rt.fn = "__aexit__" =>
          /\ rt.scope = "outside"
          /\ rt.result.kind # "raise"
          /\ rt.driver = IF rt.was THEN <<"unsubscribe", "disconnect">> ELSE <<>>
          /\ ~ rt._connected

\* A connected client left its block: the driver was told to unsubscribe and
\* to disconnect.
C29_Witness ==
    /\ rt.fn = "__aexit__"
    /\ rt.was
    /\ rt.driver = <<"unsubscribe", "disconnect">>
    /\ ~ rt._connected

\* A client whose connection the driver refused left its block: the driver
\* was not called.
C29_WitnessRefused ==
    /\ rt.fn = "__aexit__"
    /\ ~ rt.was
    /\ rt.n = 2
    /\ rt.driver = <<>>

\* ------------------------------------------------------------------ C30
\* The payload of a delivery has the key.
HasKey(delivery, k) ==
    /\ delivery.payload.wellformed
    /\ delivery.payload.kind = "object"
    /\ k \in DOMAIN delivery.payload.value

\* C30: read() returns None and raises nothing when the driver reports a
\* protocol error, or the payload is not JSON or has no 'ts' or no
\* 'measurements'; otherwise it returns the message with the decoded
\* timestamp and measurements; is_connected is as it was in every case.
C30_ReadNeverRaises ==
    rt.fn = "read" =>
        LET delivery == rt.arg
            bad == \/ delivery.error
                   \/ ~ delivery.payload.wellformed
                   \/ ~ HasKey(delivery, "ts")
                   \/ ~ HasKey(delivery, "measurements")
        IN  /\ rt._connected = rt.was
            /\ bad => rt.result = ReadNone
            /\ ~ bad => rt.result =
                          RealTimeMessage(delivery.payload.value.ts,
                                          delivery.payload.value.measurements)

\* ------------------------------------------------------------------ C31
\* Task t's call makes exactly one fetch.
OneFetch(t) == Called(t, "entry_point") \/ Called(t, "historical_data")

\* C31: nothing is retried.  One authenticate(), like one grant call, sends
\* at most one request to the auth endpoint; within one call a refresh grant
\* is never followed by a password grant and no two auth requests follow one
\* another; one fetch sends at most one auth request and at most one GET, and
\* no call requests the same resource twice.
C31_SingleShot ==
    \A t \in Tasks :
        /\ (\/ Called(t, "authenticate") \/ Called(t, "fetch_access_token")
            \/ Called(t, "refresh_access_token")) =>
              /\ Cardinality(AuthRequests(t)) <= 1
              /\ Gets(t) = {}
        /\ \A i, j \in AuthRequests(t) :
              i < j => ~ (log[t][i].req = "refresh_token"
                          /\ log[t][j].req = "password")
        /\ \A i \in AuthRequests(t) : i + 1 \notin AuthRequests(t)
        /\ OneFetch(t) =>
              /\ Cardinality(AuthRequests(t)) <= 1
              /\ Cardinality(Gets(t)) <= 1
        /\ \A i, j \in Gets(t) :
              i # j => log[t][i].msg.url # log[t][j].msg.url

\* authenticate() raised after its one refresh grant was refused.
C31_Witness ==
    \E t \in Tasks :
        /\ Called(t, "authenticate")
        /\ Raised(t, "AuthenticationError")
        /\ Len(log[t]) = 1
        /\ log[t][1].req = "refresh_token"
        /\ log[t][1].status = 401

\* A fetch ended after one refused refresh grant without sending a GET.
C31_WitnessFetch ==
    \E t \in Tasks :
        /\ OneFetch(t) /\ Done(t)
        /\ Len(log[t]) = 1
        /\ log[t][1].req = "refresh_token"
        /\ log[t][1].status = 401

\* ------------------------------------------------------------------ C32
\* The Bearer credential of a token: its access token, base64-encoded.
Credential(tok) == <<"Bearer", <<"b64", tok.access_token>>>>

\* The refresh grants of task t's call that the auth endpoint answered with
\* a token.
Refreshed(t) ==
    { j \in AuthRequests(t) :
        log[t][j].req = "refresh_token" /\ log[t][j].status = 200 }

\* C32: every resource GET carries the Bearer credential of the token the
\* client holds when the request is sent, and a GET sent after a successful
\* refresh never carries the credential of the token that refresh replaced.
C32_GetCarriesHeldCredential ==
    \A t \in Tasks :
        \A i \in Gets(t) :
            /\ log[t][i].held # NoToken
            /\ log[t][i].msg.headers.Authorization = Credential(log[t][i].held)
            /\ \A j \in Refreshed(t) :
                  j < i => log[t][i].msg.headers.Authorization
                             # Credential(log[t][j].held)

\* A GET followed a successful refresh of a token that had an access token,
\* and carried the new token's credential.
C32_Witness ==
    \E t \in Tasks :
        \E i \in Gets(t) :
            \E j \in Refreshed(t) :
                /\ j < i
                /\ log[t][j].held.access_token # NoValue
                /\ log[t][i].held = log[t][j].granted
                /\ log[t][i].msg.headers.Authorization
                     = Credential(log[t][j].granted)

\* ------------------------------------------------------------------ C33
\* C33: a fetch that starts while the client holds a valid token sends
\* nothing to the auth endpoint and leaves the token alone: throughout and
\* after the call the client holds the same token object with every field as
\* it was, whether the fetch returns a resource, returns None or raises.
C33_FetchWithValidTokenKeepsIt ==
    \A t \in Tasks :
        /\ (OneFetch(t) /\ HeldValid(pre[t])) =>
              /\ AuthRequests(t) = {}
              /\ auth_token = pre[t].auth_token
              /\ Done(t) => post[t].auth_token = pre[t].auth_token
        /\ (op[t].fn \in Accessors /\ HeldValid(pre[t]) /\ log[t] # <<>>) =>
              /\ log[t][1].req = "GET"
              /\ log[t][1].held = pre[t].auth_token

\* A fetch that began with a valid token returned a resource, the token as
\* before.
C33_Witness ==
    \E t \in Tasks :
        /\ OneFetch(t) /\ Returned(t)
        /\ HeldValid(pre[t])
        /\ result[t].data # NoData
        /\ Cardinality(Gets(t)) = 1
        /\ post[t].auth_token = pre[t].auth_token

\* A fetch that began with a valid token returned None, the token as before.
C33_WitnessNone ==
    \E t \in Tasks :
        /\ OneFetch(t) /\ Returned(t)
        /\ HeldValid(pre[t])
        /\ result[t].data = NoData
        /\ Cardinality(Gets(t)) = 1
        /\ post[t].auth_token = pre[t].auth_token

\* ------------------------------------------------------------------ C34
\* The password grants of task t's call.
PasswordGrants(t) == { i \in AuthRequests(t) : log[t][i].req = "password" }

\* C34: fetch_access_token() never changes what the client holds: during and
\* after the call, whether the grant was given or refused and whether or not
\* the call overrode the credentials, the token and the entry point are as
\* before.  The credentials the client was built with stay in use: a call
\* that overrides none sends them, also after a call that did.  Only another
\* operation than fetch_access_token() ends with a password-grant token held.
C34_PasswordGrantLeavesStore ==
    \A t \in Tasks :
        /\ Called(t, "fetch_access_token") =>
              /\ auth_token = pre[t].auth_token
              /\ entry_point = pre[t].entry_point
              /\ Done(t) => post[t].auth_token = pre[t].auth_token
        /\ \A i \in PasswordGrants(t) :
              /\ log[t][i].msg.data.username =
                    (IF Called(t, "fetch_access_token") /\ op[t].flag
                       THEN "other" ELSE "auth_username")
              /\ log[t][i].msg.data.password =
                    (IF Called(t, "fetch_access_token") /\ op[t].flag
                       THEN "other" ELSE "auth_password")
              /\ (/\ Done(t) /\ log[t][i].granted # NoToken
                  /\ post[t].auth_token = log[t][i].granted) =>
                    ~ Called(t, "fetch_access_token")

\* fetch_access_token() with overriding credentials was granted a valid token
\* and returned it while the client went on holding an older token.
C34_Witness ==
    \E t \in Tasks :
        /\ Called(t, "fetch_access_token") /\ Returned(t)
        /\ op[t].flag
        /\ PasswordGrants(t) = {1}
        /\ GrantedValid(log[t][1])
        /\ result[t].tok = log[t][1].granted
        /\ pre[t].auth_token # NoToken
        /\ post[t].auth_token = pre[t].auth_token

\* authenticate() on a client without a token installed the token of its
\* password grant.
C34_WitnessAuthenticate ==
    \E t \in Tasks :
        /\ Called(t, "authenticate") /\ Returned(t)
        /\ PasswordGrants(t) = {1}
        /\ pre[t].auth_token = NoToken
        /\ post[t].auth_token = log[t][1].granted

\* ------------------------------------------------------------------ C35
\* The last request of task t's call was a refresh grant that the auth
\* endpoint refused.
RefreshRefused(t) ==
    /\ log[t] # <<>>
    /\ log[t][Len(log[t])].req = "refresh_token"
    /\ log[t][Len(log[t])].status \notin {0, 200}

\* C35: a refresh grant that the auth endpoint answers with a status other
\* than 200 leaves the client holding the very token it held when the grant
\* was sent, in refresh_access_token() and in every call that refreshes.
C35_RefusedRefreshKeepsToken ==
    \A t \in Tasks :
        RefreshRefused(t) =>
            /\ auth_token = log[t][Len(log[t])].held
            /\ Called(t, "refresh_access_token") =>
                  auth_token = pre[t].auth_token
            /\ (Called(t, "refresh_access_token") /\ Done(t)) =>
                  post[t].auth_token = pre[t].auth_token

\* refresh_access_token() was refused and the client holds the token it held.
C35_Witness ==
    \E t \in Tasks :
        /\ Called(t, "refresh_access_token") /\ Done(t)
        /\ RefreshRefused(t)
        /\ pre[t].auth_token # NoToken
        /\ post[t].auth_token = pre[t].auth_token
        /\ auth_token.id = pre[t].auth_token.id

\* ------------------------------------------------------------------ C36
\* C36: authenticate() that raises AuthenticationError leaves the client
\* holding what it held before the call, and authenticate() replaces the held
\* token only with a token that is valid, also when the auth endpoint answers
\* the refresh grant with status 200 and a token that is expired or has no
\* access or refresh token.
C36_FailedAuthenticateKeepsStore ==
    \A t \in Tasks :
        Called(t, "authenticate") /\ Done(t) =>
            /\ Raised(t, "AuthenticationError") =>
                  post[t].auth_token = pre[t].auth_token
            /\ post[t].auth_token # pre[t].auth_token =>
                  ValidAt(post[t].auth_token, post[t].now)

\* ------------------------------------------------------------------ C37
\* C37: whatever the interleaving of concurrent accessor calls on the one
\* client, a call ends with AuthenticationError only if the client holds no
\* valid token at the moment the error is raised: a call whose own refresh
\* grant was refused does not fail once another call has installed a valid
\* token.
C37_FailsOnlyWithoutValidToken ==
    \A t \in Tasks :
        (Called(t, "historical_data") /\ Raised(t, "AuthenticationError")) =>
            ~ HeldValid(post[t])

\* ------------------------------------------------------------------ C38
\* The auth endpoint numbers its grants in the order it issues them; a
\* granted token carries the number as its access or refresh token.
SerialOf(tok) ==
    IF tok.access_token # NoValue THEN tok.access_token ELSE tok.refresh_token

\* The valid tokens that answered the refresh grants of the calls on record.
RefreshGranted ==
    UNION { { log[t][j].granted :
                j \in { k \in Refreshed(t) : GrantedValid(log[t][k]) } } :
            t \in Tasks }

\* No call is under way.
AllCompleted == running = 0 /\ \A t \in Tasks : stack[t] = <<>>

\* C38: whatever the interleaving of refreshes, once all have completed the
\* client does not hold the token of a successful refresh grant that a later
\* successful refresh grant of the auth endpoint has superseded: the token it
\* holds is the one the endpoint issued last.
C38_HoldsLatestRefresh ==
    (AllCompleted /\ auth_token \in RefreshGranted) =>
        \A tok \in RefreshGranted : SerialOf(auth_token) >= SerialOf(tok)

\* ------------------------------------------------------------------ C39
\* A stream() has raised: a call it awaited did not return.
StreamRaised == \E c \in 1..script.profiles : script.pc[c] = "raised"

\* Every stream() has left its loop and disconnected its client.
AllDisconnected ==
    \A c \in 1..script.profiles :
        /\ script.pc[c] = "done"
        /\ script.called[c] = <<"disconnect">>
        /\ ~ script._connected[c]

C39_WitnessReconnect ==
    \E c \in 1..script.profiles :
        /\ script.stopped
        /\ script.pc[c] = "read"
        /\ ~ script.found[c]
        /\ script.called[c] = <<"connect", "read">>

====
